---- MODULE Spec2Model ----
(***************************************************************************)
(* A model of the ckb-vm fragment:                                         *)
(*   src/src/instructions/common.rs    the executors shared with RVC       *)
(*   src/src/probe.rs                  the trace probes                    *)
(*   src/definitions/src/instructions.rs  the decoded word and opcodes     *)
(*                                                                         *)
(* The machine is the 64-bit one (Mac::REG = u64).  A register value is a  *)
(* tuple of 8 bytes, least significant first, because the model checker's  *)
(* integers are 32 bits wide: all 64-bit arithmetic is done on the bytes   *)
(* and wraps at 2^64 exactly as the u64 operations do.                     *)
(***************************************************************************)
EXTENDS Integers, Sequences, FiniteSets, TLC

(***************************************************************************)
(* Bounds of the model.                                                    *)
(***************************************************************************)
\* The number of executor or probe calls in one behaviour.
MaxSteps == 2

(***************************************************************************)
(* Program constants.                                                      *)
(***************************************************************************)
\* RISCV_MAX_MEMORY is imported by common.rs (line 3) from the crate root,
\* which is not part of the fragment; the value is the 4 MiB of the
\* specification's boundary scenarios.
RISCV_MAX_MEMORY == 4194304

\* crate::registers (imported at common.rs line 7): the ABI register numbers.
RA == 1
A0 == 10
A1 == 11
A2 == 12
A3 == 13
A4 == 14
A5 == 15
A6 == 16
A7 == 17

(***************************************************************************)
(* Register values: Mac::REG = u64 as 8 bytes, little endian.              *)
(***************************************************************************)
Byte == 0..255

RegisterIndexes == 0..31

Pow2(n) == <<1, 2, 4, 8, 16, 32, 64, 128, 256>>[n + 1]

\* Bit i (0 = least significant) of the value v.
Bit(v, i) == (v[(i \div 8) + 1] \div Pow2(i % 8)) % 2

\* Register::zero()
Zero == <<0, 0, 0, 0, 0, 0, 0, 0>>

\* The 4 low bytes of a natural number below 2^31.
LowBytes(n) ==
    << n % 256, (n \div 256) % 256, (n \div 65536) % 256, (n \div 16777216) % 256 >>

\* Register::from_u8 / from_u32 (for the values below 2^31 the model uses):
\* zero extension.
from_u32(n) == LowBytes(n) \o <<0, 0, 0, 0>>

from_u8(n) == from_u32(n)

\* Register::from_i32: sign extension of a 32-bit signed integer.
from_i32(i) ==
    IF i >= 0
    THEN LowBytes(i) \o <<0, 0, 0, 0>>
    ELSE LET n == (i + 2147483647) + 1          \* i + 2^31, in 0..2^31-1
             b == LowBytes(n)
         IN  <<b[1], b[2], b[3], b[4] + 128, 255, 255, 255, 255>>

\* Register::to_u8 for a small value (a shift amount, a bit count).
to_u8(v) == v[1]

\* Carry out of byte k (1..8) in a + b + cin; k = 0 is the carry in.
RECURSIVE Carry(_, _, _, _)
Carry(a, b, cin, k) ==
    IF k = 0 THEN cin ELSE (a[k] + b[k] + Carry(a, b, cin, k - 1)) \div 256

AddWithCarry(a, b, cin) ==
    [k \in 1..8 |-> (a[k] + b[k] + Carry(a, b, cin, k - 1)) % 256]

AsTuple(f) == <<f[1], f[2], f[3], f[4], f[5], f[6], f[7], f[8]>>

\* Register::overflowing_add: wrapping addition at 64 bits.
overflowing_add(a, b) == AsTuple(AddWithCarry(a, b, 0))

\* Bitwise complement.
Not(a) == <<255 - a[1], 255 - a[2], 255 - a[3], 255 - a[4],
            255 - a[5], 255 - a[6], 255 - a[7], 255 - a[8]>>

\* Register::overflowing_sub: wrapping subtraction, a + ~b + 1.
overflowing_sub(a, b) == AsTuple(AddWithCarry(a, Not(b), 1))

\* u64::checked_add(bytes): TRUE when address + bytes does not fit in 64 bits.
AddOverflows(a, b) == Carry(a, b, 0, 8) = 1

\* The bitwise operations on two 4-bit values, bit by bit.
RECURSIVE Bitwise(_, _, _, _)
Bitwise(op, x, y, n) ==
    IF n = 0 THEN 0
    ELSE LET bx == x % 2
             by == y % 2
             bit == CASE op = "and" -> bx * by
                      [] op = "or"  -> IF bx + by > 0 THEN 1 ELSE 0
                      [] op = "xor" -> (bx + by) % 2
         IN  bit + 2 * Bitwise(op, x \div 2, y \div 2, n - 1)

AndNibble == [x \in 0..15 |-> [y \in 0..15 |-> Bitwise("and", x, y, 4)]]

OrNibble == [x \in 0..15 |-> [y \in 0..15 |-> Bitwise("or", x, y, 4)]]

XorNibble == [x \in 0..15 |-> [y \in 0..15 |-> Bitwise("xor", x, y, 4)]]

\* A byte-wise operation from its table on 4-bit values.
ByteOp(t, x, y) == 16 * t[x \div 16][y \div 16] + t[x % 16][y % 16]

WordOp(t, a, b) ==
    << ByteOp(t, a[1], b[1]), ByteOp(t, a[2], b[2]), ByteOp(t, a[3], b[3]),
       ByteOp(t, a[4], b[4]), ByteOp(t, a[5], b[5]), ByteOp(t, a[6], b[6]),
       ByteOp(t, a[7], b[7]), ByteOp(t, a[8], b[8]) >>

\* BitAnd / BitOr / BitXor on the register type.
BitAnd(a, b) == WordOp(AndNibble, a, b)

BitOr(a, b) == WordOp(OrNibble, a, b)

BitXor(a, b) == WordOp(XorNibble, a, b)

\* Byte k (1..8) of a; `fill` above the value, 0 below it.
ByteAt(a, k, fill) == IF k < 1 THEN 0 ELSE IF k > 8 THEN fill ELSE a[k]

\* Shl: the shift amount is taken modulo the register width.  A shift by
\* n = 8q + r moves byte k - q up by r bits and brings in the top r bits
\* of byte k - q - 1.
Shl(a, s) ==
    LET n == to_u8(s) % 64
        q == n \div 8
        r == n % 8
        b(k) == ((ByteAt(a, k - q, 0) * Pow2(r)) % 256)
                + (ByteAt(a, k - q - 1, 0) \div Pow2(8 - r))
    IN  <<b(1), b(2), b(3), b(4), b(5), b(6), b(7), b(8)>>

\* A right shift by n = 8q + r that fills with the byte `fill`.
ShiftRight(a, n, fill) ==
    LET q == n \div 8
        r == n % 8
        b(k) == (ByteAt(a, k + q, fill) \div Pow2(r))
                + ((ByteAt(a, k + q + 1, fill) * Pow2(8 - r)) % 256)
    IN  <<b(1), b(2), b(3), b(4), b(5), b(6), b(7), b(8)>>

\* Shr: logical right shift, amount modulo the register width.
Shr(a, s) == ShiftRight(a, to_u8(s) % 64, 0)

\* Register::signed_shr: arithmetic right shift, amount modulo the width.
signed_shr(a, s) == ShiftRight(a, to_u8(s) % 64, IF a[8] >= 128 THEN 255 ELSE 0)

\* The byte (1..8) that holds bit n - 1, and the weight of the bits of that
\* byte that lie below bit n.
TopByte(n) == ((n - 1) \div 8) + 1

TopWeight(n) == Pow2(((n - 1) % 8) + 1)

\* Register::sign_extend(start_bit): the low start_bit bits, the rest filled
\* with bit start_bit - 1.
sign_extend(a, start_bit) ==
    LET n == to_u8(start_bit)
        sign == Bit(a, n - 1)
        ext(k) ==
            IF k < TopByte(n) THEN a[k]
            ELSE IF k = TopByte(n)
                 THEN (a[k] % TopWeight(n)) + sign * (256 - TopWeight(n))
            ELSE 255 * sign
    IN  <<ext(1), ext(2), ext(3), ext(4), ext(5), ext(6), ext(7), ext(8)>>

\* Register::zero_extend(start_bit): the low start_bit bits, the rest 0.
zero_extend(a, start_bit) ==
    LET n == to_u8(start_bit)
        ext(k) ==
            IF k < TopByte(n) THEN a[k]
            ELSE IF k = TopByte(n) THEN a[k] % TopWeight(n)
            ELSE 0
    IN  <<ext(1), ext(2), ext(3), ext(4), ext(5), ext(6), ext(7), ext(8)>>

\* Register::to_u64 of a u64 register.
to_u64(a) == a

\* The value as a natural number when it is below 2^31, else -1.
Small(a) ==
    IF a[5] = 0 /\ a[6] = 0 /\ a[7] = 0 /\ a[8] = 0 /\ a[4] < 128
    THEN a[1] + 256 * a[2] + 65536 * a[3] + 16777216 * a[4]
    ELSE -1

(***************************************************************************)
(* The machine: registers x0..x31, the program counter, the memory, and    *)
(* the trace of the effects the current executor has had, in order.        *)
(***************************************************************************)
VARIABLES
    registers,   \* machine.registers(): [0..31 -> register value]
    pc,          \* machine.pc()
    memory,      \* machine.memory_mut(): address -> non-zero byte (absent: 0)
    events,      \* the effects of the last call, in program order
    last,        \* the last call: executor, operands, result
    steps,       \* calls made so far
    query,       \* the argument of the pure function under check
    answer       \* <<>> before the call, <<r>> once it has returned r

vars == <<registers, pc, memory, events, last, steps, query, answer>>

\* The machine an executor is handed: its events start empty.
Mac == [registers |-> registers, pc |-> pc, memory |-> memory, events |-> <<>>]

\* One effect: what happened (ev), the register index or byte width it is
\* about (n), the values it carries (args), and for a probe the file whose
\* probe_* function fired it (by).
Event(ev, n, args, by) == [ev |-> ev, n |-> n, args |-> args, by |-> by]

Emit(m, e) == [m EXCEPT !.events = Append(@, e)]

\* A Result<(), Error> together with the machine it leaves.
Ok(m) == [m |-> m, res |-> "Ok"]

Err(m, e) == [m |-> m, res |-> e]

\* utils::update_register (imported at common.rs line 5): the single helper
\* every executor writes a register through; a write to x0 is dropped.
update_register(m, rd, value) ==
    LET m1 == Emit(m, Event("update_register", rd, <<value>>, ""))
    IN  IF rd = 0 THEN m1
        ELSE [m1 EXCEPT !.registers = [@ EXCEPT ![rd] = value]]

\* Machine::update_pc
update_pc(m, next_pc) ==
    [Emit(m, Event("update_pc", 0, <<next_pc>>, "")) EXCEPT !.pc = next_pc]

(***************************************************************************)
(* Memory (the Memory trait, imported at common.rs line 2): a linear byte  *)
(* space of RISCV_MAX_MEMORY bytes, little endian; an access that does not *)
(* lie within it fails with MemOutOfBound.                                 *)
(***************************************************************************)
MemByte(mem, a) == IF a \in DOMAIN mem THEN mem[a] ELSE 0

\* The access of `size` bytes at `address` lies in [0, RISCV_MAX_MEMORY).
InBound(address, size) ==
    /\ Small(address) # -1
    /\ Small(address) <= RISCV_MAX_MEMORY
    /\ Small(address) + size <= RISCV_MAX_MEMORY

\* Memory::load8/16/32/64: the bytes at address, zero extended.
MemLoad(m, address, size) ==
    LET m1 == Emit(m, Event("load", size, <<address>>, ""))
        a  == Small(address)
    IN  IF ~InBound(address, size)
        THEN [m |-> m1, res |-> "MemOutOfBound", value |-> Zero]
        ELSE [m |-> m1, res |-> "Ok",
              value |-> AsTuple([k \in 1..8 |->
                           IF k <= size THEN MemByte(m.memory, a + k - 1) ELSE 0])]

load8(m, address) == MemLoad(m, address, 1)

load16(m, address) == MemLoad(m, address, 2)

load32(m, address) == MemLoad(m, address, 4)

load64(m, address) == MemLoad(m, address, 8)

\* Memory::store8/16/32/64: the low `size` bytes of value at address.
MemStore(m, address, value, size) ==
    LET m1 == Emit(m, Event("store", size, <<address, value>>, ""))
        a  == Small(address)
        written == a..(a + size - 1)
        byte(x) == IF x \in written THEN value[x - a + 1] ELSE m.memory[x]
        dom == {x \in (DOMAIN m.memory) \cup written : byte(x) # 0}
    IN  IF ~InBound(address, size)
        THEN Err(m1, "MemOutOfBound")
        ELSE Ok([m1 EXCEPT !.memory = [x \in dom |-> byte(x)]])

store8(m, address, value) == MemStore(m, address, value, 1)

store16(m, address, value) == MemStore(m, address, value, 2)

store32(m, address, value) == MemStore(m, address, value, 4)

store64(m, address, value) == MemStore(m, address, value, 8)

(***************************************************************************)
(* common.rs: ALU instructions.                                            *)
(***************************************************************************)
\* A mutant of add: the sum is stored in the register file directly, not
\* through update_register.
add_direct(m, rd, rs1, rs2) ==
    LET rs1_value == m.registers[rs1]
        rs2_value == m.registers[rs2]
        value == overflowing_add(rs1_value, rs2_value)
    IN  [Emit(m, Event("update_register", rd, <<value>>, ""))
            EXCEPT !.registers = [@ EXCEPT ![rd] = value]]

add(m, rd, rs1, rs2) ==
    LET rs1_value == m.registers[rs1]
        rs2_value == m.registers[rs2]
        value == overflowing_add(rs1_value, rs2_value)
    IN  update_register(m, rd, value)

addw(m, rd, rs1, rs2) ==
    LET rs1_value == m.registers[rs1]
        rs2_value == m.registers[rs2]
        value == overflowing_add(rs1_value, rs2_value)
    IN  update_register(m, rd, sign_extend(value, from_u8(32)))

sub(m, rd, rs1, rs2) ==
    LET rs1_value == m.registers[rs1]
        rs2_value == m.registers[rs2]
        value == overflowing_sub(rs1_value, rs2_value)
    IN  update_register(m, rd, value)

subw(m, rd, rs1, rs2) ==
    LET rs1_value == m.registers[rs1]
        rs2_value == m.registers[rs2]
        value == overflowing_sub(rs1_value, rs2_value)
    IN  update_register(m, rd, sign_extend(value, from_u8(32)))

addi(m, rd, rs1, imm) ==
    LET value == overflowing_add(m.registers[rs1], from_i32(imm))
    IN  update_register(m, rd, value)

addiw(m, rd, rs1, imm) ==
    LET value == overflowing_add(m.registers[rs1], from_i32(imm))
    IN  update_register(m, rd, sign_extend(value, from_u8(32)))

(***************************************************************************)
(* common.rs: LOAD instructions.                                           *)
(***************************************************************************)
\* A mutant of check_load_boundary: an end beyond RISCV_MAX_MEMORY is
\* rejected, an end equal to it is not.
check_load_boundary_beyond(version0, address, bytes) ==
    IF version0
    THEN LET a == to_u64(address)
             end == overflowing_add(a, from_u8(bytes))
         IN  IF AddOverflows(a, from_u8(bytes)) THEN "MemOutOfBound"
             ELSE IF Small(end) = -1 \/ Small(end) > RISCV_MAX_MEMORY
                  THEN "MemOutOfBound"
             ELSE "Ok"
    ELSE "Ok"

\* A mutant of check_load_boundary: the check is made whatever the version.
check_load_boundary_always(version0, address, bytes) ==
    LET a == to_u64(address)
        end == overflowing_add(a, from_u8(bytes))
    IN  IF AddOverflows(a, from_u8(bytes)) THEN "MemOutOfBound"
        ELSE IF Small(end) = RISCV_MAX_MEMORY THEN "MemOutOfBound"
        ELSE "Ok"

\* check_load_boundary: only a VERSION0 load is checked; address + bytes must
\* fit in 64 bits and must not equal RISCV_MAX_MEMORY.
check_load_boundary(version0, address, bytes) ==
    IF version0
    THEN LET a == to_u64(address)
             end == overflowing_add(a, from_u8(bytes))
         IN  IF AddOverflows(a, from_u8(bytes)) THEN "MemOutOfBound"
             ELSE IF Small(end) = RISCV_MAX_MEMORY THEN "MemOutOfBound"
             ELSE "Ok"
    ELSE "Ok"

lb(m, rd, rs1, imm, version0) ==
    LET address == overflowing_add(m.registers[rs1], from_i32(imm))
        chk == check_load_boundary(version0, address, 1)
        l == load8(m, address)
    IN  IF chk # "Ok" THEN Err(m, chk)
        ELSE IF l.res # "Ok" THEN Err(l.m, l.res)
        ELSE Ok(update_register(l.m, rd, sign_extend(l.value, from_u8(8))))

\* A mutant of lh: the loaded halfword is written without sign extension.
lh_unextended(m, rd, rs1, imm, version0) ==
    LET address == overflowing_add(m.registers[rs1], from_i32(imm))
        chk == check_load_boundary(version0, address, 2)
        l == load16(m, address)
    IN  IF chk # "Ok" THEN Err(m, chk)
        ELSE IF l.res # "Ok" THEN Err(l.m, l.res)
        ELSE Ok(update_register(l.m, rd, l.value))

lh(m, rd, rs1, imm, version0) ==
    LET address == overflowing_add(m.registers[rs1], from_i32(imm))
        chk == check_load_boundary(version0, address, 2)
        l == load16(m, address)
    IN  IF chk # "Ok" THEN Err(m, chk)
        ELSE IF l.res # "Ok" THEN Err(l.m, l.res)
        ELSE Ok(update_register(l.m, rd, sign_extend(l.value, from_u8(16))))

\* A mutant of lw: the boundary check is left out.
lw_unchecked(m, rd, rs1, imm, version0) ==
    LET address == overflowing_add(m.registers[rs1], from_i32(imm))
        l == load32(m, address)
    IN  IF l.res # "Ok" THEN Err(l.m, l.res)
        ELSE Ok(update_register(l.m, rd, sign_extend(l.value, from_u8(32))))

lw(m, rd, rs1, imm, version0) ==
    LET address == overflowing_add(m.registers[rs1], from_i32(imm))
        chk == check_load_boundary(version0, address, 4)
        l == load32(m, address)
    IN  IF chk # "Ok" THEN Err(m, chk)
        ELSE IF l.res # "Ok" THEN Err(l.m, l.res)
        ELSE Ok(update_register(l.m, rd, sign_extend(l.value, from_u8(32))))

\* A mutant of ld: when the memory load fails, what it returned is written
\* to rd before the error is returned.
ld_written_on_error(m, rd, rs1, imm, version0) ==
    LET address == overflowing_add(m.registers[rs1], from_i32(imm))
        chk == check_load_boundary(version0, address, 8)
        l == load64(m, address)
    IN  IF chk # "Ok" THEN Err(m, chk)
        ELSE IF l.res # "Ok" THEN Err(update_register(l.m, rd, l.value), l.res)
        ELSE Ok(update_register(l.m, rd, sign_extend(l.value, from_u8(64))))

ld(m, rd, rs1, imm, version0) ==
    LET address == overflowing_add(m.registers[rs1], from_i32(imm))
        chk == check_load_boundary(version0, address, 8)
        l == load64(m, address)
    IN  IF chk # "Ok" THEN Err(m, chk)
        ELSE IF l.res # "Ok" THEN Err(l.m, l.res)
        ELSE Ok(update_register(l.m, rd, sign_extend(l.value, from_u8(64))))

lbu(m, rd, rs1, imm, version0) ==
    LET address == overflowing_add(m.registers[rs1], from_i32(imm))
        chk == check_load_boundary(version0, address, 1)
        l == load8(m, address)
    IN  IF chk # "Ok" THEN Err(m, chk)
        ELSE IF l.res # "Ok" THEN Err(l.m, l.res)
        ELSE Ok(update_register(l.m, rd, l.value))

lhu(m, rd, rs1, imm, version0) ==
    LET address == overflowing_add(m.registers[rs1], from_i32(imm))
        chk == check_load_boundary(version0, address, 2)
        l == load16(m, address)
    IN  IF chk # "Ok" THEN Err(m, chk)
        ELSE IF l.res # "Ok" THEN Err(l.m, l.res)
        ELSE Ok(update_register(l.m, rd, l.value))

lwu(m, rd, rs1, imm, version0) ==
    LET address == overflowing_add(m.registers[rs1], from_i32(imm))
        chk == check_load_boundary(version0, address, 4)
        l == load32(m, address)
    IN  IF chk # "Ok" THEN Err(m, chk)
        ELSE IF l.res # "Ok" THEN Err(l.m, l.res)
        ELSE Ok(update_register(l.m, rd, l.value))

(***************************************************************************)
(* common.rs: STORE instructions.                                          *)
(***************************************************************************)
sb(m, rs1, rs2, imm) ==
    LET address == overflowing_add(m.registers[rs1], from_i32(imm))
        value == m.registers[rs2]
    IN  store8(m, address, value)

\* A mutant of sh: four bytes of x[rs2] are stored.
sh_wide(m, rs1, rs2, imm) ==
    LET address == overflowing_add(m.registers[rs1], from_i32(imm))
        value == m.registers[rs2]
    IN  store32(m, address, value)

sh(m, rs1, rs2, imm) ==
    LET address == overflowing_add(m.registers[rs1], from_i32(imm))
        value == m.registers[rs2]
    IN  store16(m, address, value)

sw(m, rs1, rs2, imm) ==
    LET address == overflowing_add(m.registers[rs1], from_i32(imm))
        value == m.registers[rs2]
    IN  store32(m, address, value)

sd(m, rs1, rs2, imm) ==
    LET address == overflowing_add(m.registers[rs1], from_i32(imm))
        value == m.registers[rs2]
    IN  store64(m, address, value)

(***************************************************************************)
(* common.rs: BIT-OP instructions.                                         *)
(***************************************************************************)
and(m, rd, rs1, rs2) ==
    LET rs1_value == m.registers[rs1]
        rs2_value == m.registers[rs2]
        value == BitAnd(rs1_value, rs2_value)
    IN  update_register(m, rd, value)

xor(m, rd, rs1, rs2) ==
    LET rs1_value == m.registers[rs1]
        rs2_value == m.registers[rs2]
        value == BitXor(rs1_value, rs2_value)
    IN  update_register(m, rd, value)

or(m, rd, rs1, rs2) ==
    LET rs1_value == m.registers[rs1]
        rs2_value == m.registers[rs2]
        value == BitOr(rs1_value, rs2_value)
    IN  update_register(m, rd, value)

andi(m, rd, rs1, imm) ==
    LET value == BitAnd(m.registers[rs1], from_i32(imm))
    IN  update_register(m, rd, value)

xori(m, rd, rs1, imm) ==
    LET value == BitXor(m.registers[rs1], from_i32(imm))
    IN  update_register(m, rd, value)

ori(m, rd, rs1, imm) ==
    LET value == BitOr(m.registers[rs1], from_i32(imm))
    IN  update_register(m, rd, value)

slli(m, rd, rs1, shamt) ==
    LET value == Shl(m.registers[rs1], from_u32(shamt))
    IN  update_register(m, rd, value)

srli(m, rd, rs1, shamt) ==
    LET value == Shr(m.registers[rs1], from_u32(shamt))
    IN  update_register(m, rd, value)

srai(m, rd, rs1, shamt) ==
    LET value == signed_shr(m.registers[rs1], from_u32(shamt))
    IN  update_register(m, rd, value)

\* A mutant of slliw: the shifted value is written as it is, not
\* sign-extended from 32 bits.
slliw_unextended(m, rd, rs1, shamt) ==
    LET value == Shl(m.registers[rs1], from_u32(shamt))
    IN  update_register(m, rd, value)

slliw(m, rd, rs1, shamt) ==
    LET value == Shl(m.registers[rs1], from_u32(shamt))
    IN  update_register(m, rd, sign_extend(value, from_u8(32)))

srliw(m, rd, rs1, shamt) ==
    LET value == Shr(zero_extend(m.registers[rs1], from_u8(32)), from_u32(shamt))
    IN  update_register(m, rd, sign_extend(value, from_u8(32)))

sraiw(m, rd, rs1, shamt) ==
    LET value == signed_shr(sign_extend(m.registers[rs1], from_u8(32)), from_u32(shamt))
    IN  update_register(m, rd, sign_extend(value, from_u8(32)))

(***************************************************************************)
(* The probes.  probe::probe!(ckb_vm, name, args...) hands the values to   *)
(* the tracer and touches nothing of the machine; the trace records which  *)
(* file's probe_* function fired it.  The two pointer arguments of the     *)
(* jump probe (regs, memory) are addresses of the host and are left out.   *)
(***************************************************************************)
probe(m, name, args, by) == Emit(m, Event(name, 0, args, by))

\* common.rs: the probe_* functions defined beside the executors.  An
\* unqualified call in common.rs resolves to these.
probe_function_call(m, current_pc, next_pc) ==
    LET a0 == to_u64(m.registers[A0])
        a1 == to_u64(m.registers[A1])
        a2 == to_u64(m.registers[A2])
        a3 == to_u64(m.registers[A3])
        a4 == to_u64(m.registers[A4])
        a5 == to_u64(m.registers[A5])
        a6 == to_u64(m.registers[A6])
        a7 == to_u64(m.registers[A7])
        m1 == probe(m, "function_call_arguments",
                    <<to_u64(current_pc), to_u64(next_pc), a0, a1, a2, a3>>,
                    "common.rs")
    IN  probe(m1, "function_call2",
              <<to_u64(current_pc), to_u64(next_pc), a4, a5, a6, a7>>,
              "common.rs")

probe_function_return(m, current_pc, return_pc) ==
    LET a0 == to_u64(m.registers[A0])
        a1 == to_u64(m.registers[A1])
    IN  probe(m, "function_return",
              <<to_u64(current_pc), to_u64(return_pc), a0, a1>>, "common.rs")

\* A mutant of probe_jump: the probe moves the machine to the target.
probe_jump_moving(m, link, next_pc) ==
    [probe(m, "jump", <<to_u64(link), to_u64(next_pc)>>, "common.rs")
        EXCEPT !.pc = next_pc]

probe_jump(m, link, next_pc) ==
    probe(m, "jump", <<to_u64(link), to_u64(next_pc)>>, "common.rs")

\* probe.rs: the probe_* functions of the probe module.
probe_rs_probe_function_call(m, current_pc, next_pc) ==
    LET a0 == to_u64(m.registers[A0])
        a1 == to_u64(m.registers[A1])
        a2 == to_u64(m.registers[A2])
        a3 == to_u64(m.registers[A3])
        a4 == to_u64(m.registers[A4])
        a5 == to_u64(m.registers[A5])
        a6 == to_u64(m.registers[A6])
        a7 == to_u64(m.registers[A7])
        m1 == probe(m, "function_call_arguments",
                    <<to_u64(current_pc), to_u64(next_pc), a0, a1, a2, a3>>,
                    "probe.rs")
    IN  probe(m1, "function_call2",
              <<to_u64(current_pc), to_u64(next_pc), a4, a5, a6, a7>>,
              "probe.rs")

probe_rs_probe_function_return(m, current_pc, return_pc) ==
    LET a0 == to_u64(m.registers[A0])
        a1 == to_u64(m.registers[A1])
    IN  probe(m, "function_return",
              <<to_u64(current_pc), to_u64(return_pc), a0, a1>>, "probe.rs")

probe_rs_probe_jump(m, link, next_pc) ==
    probe(m, "jump", <<to_u64(link), to_u64(next_pc)>>, "probe.rs")

probe_syscall(m, code) ==
    LET arg0 == to_u64(m.registers[A0])
        arg1 == to_u64(m.registers[A1])
        arg2 == to_u64(m.registers[A2])
        arg3 == to_u64(m.registers[A3])
        arg4 == to_u64(m.registers[A4])
        arg5 == to_u64(m.registers[A5])
    IN  probe(m, "syscall", <<code, arg0, arg1, arg2, arg3, arg4, arg5>>, "probe.rs")

probe_syscall_return(m, code) ==
    LET ret_code == to_u64(m.registers[A0])
        ret_code2 == to_u64(m.registers[A1])
    IN  probe(m, "syscall_ret", <<code, ret_code, ret_code2>>, "probe.rs")

(***************************************************************************)
(* common.rs: JUMP instructions.                                           *)
(***************************************************************************)
\* A mutant of jal: the PC is updated first, and the link is computed from
\* the PC it then reads.
jal_pc_first(m, rd, imm, xbytes) ==
    LET next_pc == overflowing_add(m.pc, from_i32(imm))
        m1 == update_pc(m, next_pc)
        link == overflowing_add(m1.pc, from_u8(xbytes))
        m2 == update_register(m1, rd, link)
        m3 == probe_jump(m2, link, next_pc)
    IN  IF rd = RA THEN probe_function_call(m3, m.pc, next_pc) ELSE m3

\* A mutant of jal: the probes are fired once the PC is updated.
jal_probes_late(m, rd, imm, xbytes) ==
    LET link == overflowing_add(m.pc, from_u8(xbytes))
        m1 == update_register(m, rd, link)
        next_pc == overflowing_add(m1.pc, from_i32(imm))
        m2 == update_pc(m1, next_pc)
        m3 == probe_jump(m2, link, next_pc)
    IN  IF rd = RA THEN probe_function_call(m3, m3.pc, next_pc) ELSE m3

\* A mutant of jal: the target is computed from half the immediate.
jal_halved(m, rd, imm, xbytes) ==
    LET link == overflowing_add(m.pc, from_u8(xbytes))
        m1 == update_register(m, rd, link)
        next_pc == overflowing_add(m1.pc, signed_shr(from_i32(imm), from_u8(1)))
        m2 == probe_jump(m1, link, next_pc)
        m3 == IF rd = RA THEN probe_function_call(m2, m2.pc, next_pc) ELSE m2
    IN  update_pc(m3, next_pc)

jal(m, rd, imm, xbytes) ==
    LET link == overflowing_add(m.pc, from_u8(xbytes))
        m1 == update_register(m, rd, link)
        next_pc == overflowing_add(m1.pc, from_i32(imm))
        m2 == probe_jump(m1, link, next_pc)
        m3 == IF rd = RA THEN probe_function_call(m2, m2.pc, next_pc) ELSE m2
    IN  update_pc(m3, next_pc)

(***************************************************************************)
(* The operands the model hands the executors.                             *)
(***************************************************************************)
\* Destination registers: x0 and the return address register; ADDI also
\* writes an argument register, which the probes read.
Regs == {0, RA}

ArgRegs == {0, RA, A0}

\* Source registers.
Srcs == {0, RA}

\* Immediates of the ALU instructions (SImmediate = i32).
Imms == {-1, 1, 2147483647}

\* Offsets of a load or store of `bytes` bytes: the start of the memory, the
\* last `bytes` bytes of it (the access ends at RISCV_MAX_MEMORY), one byte
\* further (it ends beyond), and -1 (from x0: address 2^64 - 1).
Offsets(bytes) ==
    {0, RISCV_MAX_MEMORY - bytes, RISCV_MAX_MEMORY - bytes + 1, -1}

\* Shift amounts (UImmediate = u32).
Shamts == {1, 31, 63}

\* Immediates of JAL: backwards, odd, forwards.
JalImms == {-2, 3, 8}

\* Instruction lengths: compressed and standard.
Lengths == {2, 4}

\* Syscall numbers and program counters handed to the probe functions.
Codes == {from_u32(0), from_u32(93)}

Targets == {from_u32(0), from_u32(4096)}

\* The memory once a program is loaded: 8 bytes with the top bit set at
\* address 0, and the bytes 1..8 in the last 8 bytes of the memory.
InitMemory ==
    [a \in (0..7) \cup ((RISCV_MAX_MEMORY - 8)..(RISCV_MAX_MEMORY - 1)) |->
        IF a < 8 THEN 129 + a ELSE a - (RISCV_MAX_MEMORY - 8) + 1]

\* The record of a call.
Call(op, rd, rs1, rs2, imm, version0, res) ==
    [op |-> op, rd |-> rd, rs1 |-> rs1, rs2 |-> rs2, imm |-> imm,
     version0 |-> version0, res |-> res]

\* No call is under way: the caller is between two calls.
NoCall == Call("none", 0, 0, 0, 0, FALSE, "Ok")

Init ==
    /\ registers = [i \in RegisterIndexes |-> Zero]
    /\ pc = Zero
    /\ memory = InitMemory
    /\ events = <<>>
    /\ last = NoCall
    /\ steps = 0
    /\ query = <<>>
    /\ answer = <<>>

\* The call has returned: its caller drops the record and the trace of it
\* and is ready for the next call.  The machine is as the call left it.
Return ==
    /\ last.op # "none"
    /\ last' = NoCall
    /\ events' = <<>>
    /\ UNCHANGED <<registers, pc, memory, steps, query, answer>>

\* A call can be made: none is under way, and the bound is not reached.
Idle == last = NoCall /\ steps < MaxSteps

\* The machine after a call that returns nothing.
Step(m, call) ==
    /\ steps' = steps + 1
    /\ registers' = m.registers
    /\ pc' = m.pc
    /\ memory' = m.memory
    /\ events' = m.events
    /\ last' = call
    /\ UNCHANGED <<query, answer>>

\* The machine after a call that returns a Result.
StepR(r, call) == Step(r.m, [call EXCEPT !.res = r.res])

(***************************************************************************)
(* One action per executor and per probe function.  In the record of the   *)
(* call, imm holds the immediate, the shift amount, or for JAL the         *)
(* immediate with the instruction length in rs2.                           *)
(***************************************************************************)
Add ==
    /\ Idle
    /\ \E rd \in Regs, rs1 \in Srcs, rs2 \in Srcs :
        Step(add(Mac, rd, rs1, rs2), Call("add", rd, rs1, rs2, 0, FALSE, "Ok"))

Addw ==
    /\ Idle
    /\ \E rd \in Regs, rs1 \in Srcs, rs2 \in Srcs :
        Step(addw(Mac, rd, rs1, rs2), Call("addw", rd, rs1, rs2, 0, FALSE, "Ok"))

Sub ==
    /\ Idle
    /\ \E rd \in Regs, rs1 \in Srcs, rs2 \in Srcs :
        Step(sub(Mac, rd, rs1, rs2), Call("sub", rd, rs1, rs2, 0, FALSE, "Ok"))

Subw ==
    /\ Idle
    /\ \E rd \in Regs, rs1 \in Srcs, rs2 \in Srcs :
        Step(subw(Mac, rd, rs1, rs2), Call("subw", rd, rs1, rs2, 0, FALSE, "Ok"))

Addi ==
    /\ Idle
    /\ \E rd \in ArgRegs, rs1 \in Srcs, imm \in Imms :
        Step(addi(Mac, rd, rs1, imm), Call("addi", rd, rs1, 0, imm, FALSE, "Ok"))

Addiw ==
    /\ Idle
    /\ \E rd \in Regs, rs1 \in Srcs, imm \in Imms :
        Step(addiw(Mac, rd, rs1, imm), Call("addiw", rd, rs1, 0, imm, FALSE, "Ok"))

Lb ==
    /\ Idle
    /\ \E rd \in Regs, rs1 \in Srcs, imm \in Offsets(1), version0 \in BOOLEAN :
        StepR(lb(Mac, rd, rs1, imm, version0),
              Call("lb", rd, rs1, 0, imm, version0, "Ok"))

Lh ==
    /\ Idle
    /\ \E rd \in Regs, rs1 \in Srcs, imm \in Offsets(2), version0 \in BOOLEAN :
        StepR(lh(Mac, rd, rs1, imm, version0),
              Call("lh", rd, rs1, 0, imm, version0, "Ok"))

Lw ==
    /\ Idle
    /\ \E rd \in Regs, rs1 \in Srcs, imm \in Offsets(4), version0 \in BOOLEAN :
        StepR(lw(Mac, rd, rs1, imm, version0),
              Call("lw", rd, rs1, 0, imm, version0, "Ok"))

Ld ==
    /\ Idle
    /\ \E rd \in Regs, rs1 \in Srcs, imm \in Offsets(8), version0 \in BOOLEAN :
        StepR(ld(Mac, rd, rs1, imm, version0),
              Call("ld", rd, rs1, 0, imm, version0, "Ok"))

Lbu ==
    /\ Idle
    /\ \E rd \in Regs, rs1 \in Srcs, imm \in Offsets(1), version0 \in BOOLEAN :
        StepR(lbu(Mac, rd, rs1, imm, version0),
              Call("lbu", rd, rs1, 0, imm, version0, "Ok"))

Lhu ==
    /\ Idle
    /\ \E rd \in Regs, rs1 \in Srcs, imm \in Offsets(2), version0 \in BOOLEAN :
        StepR(lhu(Mac, rd, rs1, imm, version0),
              Call("lhu", rd, rs1, 0, imm, version0, "Ok"))

Lwu ==
    /\ Idle
    /\ \E rd \in Regs, rs1 \in Srcs, imm \in Offsets(4), version0 \in BOOLEAN :
        StepR(lwu(Mac, rd, rs1, imm, version0),
              Call("lwu", rd, rs1, 0, imm, version0, "Ok"))

Sb ==
    /\ Idle
    /\ \E rs1 \in Srcs, rs2 \in Srcs, imm \in Offsets(1) :
        StepR(sb(Mac, rs1, rs2, imm), Call("sb", 0, rs1, rs2, imm, FALSE, "Ok"))

Sh ==
    /\ Idle
    /\ \E rs1 \in Srcs, rs2 \in Srcs, imm \in Offsets(2) :
        StepR(sh(Mac, rs1, rs2, imm), Call("sh", 0, rs1, rs2, imm, FALSE, "Ok"))

Sw ==
    /\ Idle
    /\ \E rs1 \in Srcs, rs2 \in Srcs, imm \in Offsets(4) :
        StepR(sw(Mac, rs1, rs2, imm), Call("sw", 0, rs1, rs2, imm, FALSE, "Ok"))

Sd ==
    /\ Idle
    /\ \E rs1 \in Srcs, rs2 \in Srcs, imm \in Offsets(8) :
        StepR(sd(Mac, rs1, rs2, imm), Call("sd", 0, rs1, rs2, imm, FALSE, "Ok"))

And ==
    /\ Idle
    /\ \E rd \in Regs, rs1 \in Srcs, rs2 \in Srcs :
        Step(and(Mac, rd, rs1, rs2), Call("and", rd, rs1, rs2, 0, FALSE, "Ok"))

Xor ==
    /\ Idle
    /\ \E rd \in Regs, rs1 \in Srcs, rs2 \in Srcs :
        Step(xor(Mac, rd, rs1, rs2), Call("xor", rd, rs1, rs2, 0, FALSE, "Ok"))

Or ==
    /\ Idle
    /\ \E rd \in Regs, rs1 \in Srcs, rs2 \in Srcs :
        Step(or(Mac, rd, rs1, rs2), Call("or", rd, rs1, rs2, 0, FALSE, "Ok"))

Andi ==
    /\ Idle
    /\ \E rd \in Regs, rs1 \in Srcs, imm \in Imms :
        Step(andi(Mac, rd, rs1, imm), Call("andi", rd, rs1, 0, imm, FALSE, "Ok"))

Xori ==
    /\ Idle
    /\ \E rd \in Regs, rs1 \in Srcs, imm \in Imms :
        Step(xori(Mac, rd, rs1, imm), Call("xori", rd, rs1, 0, imm, FALSE, "Ok"))

Ori ==
    /\ Idle
    /\ \E rd \in Regs, rs1 \in Srcs, imm \in Imms :
        Step(ori(Mac, rd, rs1, imm), Call("ori", rd, rs1, 0, imm, FALSE, "Ok"))

Slli ==
    /\ Idle
    /\ \E rd \in Regs, rs1 \in Srcs, shamt \in Shamts :
        Step(slli(Mac, rd, rs1, shamt), Call("slli", rd, rs1, 0, shamt, FALSE, "Ok"))

Srli ==
    /\ Idle
    /\ \E rd \in Regs, rs1 \in Srcs, shamt \in Shamts :
        Step(srli(Mac, rd, rs1, shamt), Call("srli", rd, rs1, 0, shamt, FALSE, "Ok"))

Srai ==
    /\ Idle
    /\ \E rd \in Regs, rs1 \in Srcs, shamt \in Shamts :
        Step(srai(Mac, rd, rs1, shamt), Call("srai", rd, rs1, 0, shamt, FALSE, "Ok"))

Slliw ==
    /\ Idle
    /\ \E rd \in Regs, rs1 \in Srcs, shamt \in Shamts :
        Step(slliw(Mac, rd, rs1, shamt), Call("slliw", rd, rs1, 0, shamt, FALSE, "Ok"))

Srliw ==
    /\ Idle
    /\ \E rd \in Regs, rs1 \in Srcs, shamt \in Shamts :
        Step(srliw(Mac, rd, rs1, shamt), Call("srliw", rd, rs1, 0, shamt, FALSE, "Ok"))

Sraiw ==
    /\ Idle
    /\ \E rd \in Regs, rs1 \in Srcs, shamt \in Shamts :
        Step(sraiw(Mac, rd, rs1, shamt), Call("sraiw", rd, rs1, 0, shamt, FALSE, "Ok"))

Jal ==
    /\ Idle
    /\ \E rd \in ArgRegs, imm \in JalImms, xbytes \in Lengths :
        Step(jal(Mac, rd, imm, xbytes), Call("jal", rd, 0, xbytes, imm, FALSE, "Ok"))

ProbeFunctionCall ==
    /\ Idle
    /\ \E target \in Targets :
        Step(probe_function_call(Mac, pc, target), Call("probe_function_call", 0, 0, 0, 0, FALSE, "Ok"))

ProbeFunctionReturn ==
    /\ Idle
    /\ \E target \in Targets :
        Step(probe_function_return(Mac, pc, target), Call("probe_function_return", 0, 0, 0, 0, FALSE, "Ok"))

ProbeJump ==
    /\ Idle
    /\ \E target \in Targets :
        Step(probe_jump(Mac, pc, target), Call("probe_jump", 0, 0, 0, 0, FALSE, "Ok"))

ProbeRsFunctionCall ==
    /\ Idle
    /\ \E target \in Targets :
        Step(probe_rs_probe_function_call(Mac, pc, target), Call("probe_rs_probe_function_call", 0, 0, 0, 0, FALSE, "Ok"))

ProbeRsFunctionReturn ==
    /\ Idle
    /\ \E target \in Targets :
        Step(probe_rs_probe_function_return(Mac, pc, target), Call("probe_rs_probe_function_return", 0, 0, 0, 0, FALSE, "Ok"))

ProbeRsJump ==
    /\ Idle
    /\ \E target \in Targets :
        Step(probe_rs_probe_jump(Mac, pc, target), Call("probe_rs_probe_jump", 0, 0, 0, 0, FALSE, "Ok"))

ProbeSyscall ==
    /\ Idle
    /\ \E code \in Codes :
        Step(probe_syscall(Mac, code), Call("probe_syscall", 0, 0, 0, 0, FALSE, "Ok"))

ProbeSyscallReturn ==
    /\ Idle
    /\ \E code \in Codes :
        Step(probe_syscall_return(Mac, code), Call("probe_syscall_return", 0, 0, 0, 0, FALSE, "Ok"))

Next ==
    \/ Add
    \/ Addw
    \/ Sub
    \/ Subw
    \/ Addi
    \/ Addiw
    \/ Lb
    \/ Lh
    \/ Lw
    \/ Ld
    \/ Lbu
    \/ Lhu
    \/ Lwu
    \/ Sb
    \/ Sh
    \/ Sw
    \/ Sd
    \/ And
    \/ Xor
    \/ Or
    \/ Andi
    \/ Xori
    \/ Ori
    \/ Slli
    \/ Srli
    \/ Srai
    \/ Slliw
    \/ Srliw
    \/ Sraiw
    \/ Jal
    \/ ProbeFunctionCall
    \/ ProbeFunctionReturn
    \/ ProbeJump
    \/ ProbeRsFunctionCall
    \/ ProbeRsFunctionReturn
    \/ ProbeRsJump
    \/ ProbeSyscall
    \/ ProbeSyscallReturn
    \/ Return

Spec == Init /\ [][Next]_vars

(***************************************************************************)
(* definitions/src/instructions.rs: the first-level opcodes.               *)
(***************************************************************************)
OP_UNLOADED == 16

OP_ADD == 17

OP_ADDI == 18

OP_ADDIW == 19

OP_ADDW == 20

OP_AND == 21

OP_ANDI == 22

OP_AUIPC == 23

OP_BEQ == 24

OP_BGE == 25

OP_BGEU == 26

OP_BLT == 27

OP_BLTU == 28

OP_BNE == 29

OP_DIV == 30

OP_DIVU == 31

OP_DIVUW == 32

OP_DIVW == 33

OP_EBREAK == 34

OP_ECALL == 35

OP_FENCE == 36

OP_FENCEI == 37

OP_JAL == 38

OP_JALR_VERSION0 == 39

OP_JALR_VERSION1 == 40

OP_LB_VERSION0 == 41

OP_LB_VERSION1 == 42

OP_LBU_VERSION0 == 43

OP_LBU_VERSION1 == 44

OP_LD_VERSION0 == 45

OP_LD_VERSION1 == 46

OP_LH_VERSION0 == 47

OP_LH_VERSION1 == 48

OP_LHU_VERSION0 == 49

OP_LHU_VERSION1 == 50

OP_LUI == 51

OP_LW_VERSION0 == 52

OP_LW_VERSION1 == 53

OP_LWU_VERSION0 == 54

OP_LWU_VERSION1 == 55

OP_MUL == 56

OP_MULH == 57

OP_MULHSU == 58

OP_MULHU == 59

OP_MULW == 60

OP_OR == 61

OP_ORI == 62

OP_REM == 63

OP_REMU == 64

OP_REMUW == 65

OP_REMW == 66

OP_SB == 67

OP_SD == 68

OP_SH == 69

OP_SLL == 70

OP_SLLI == 71

OP_SLLIW == 72

OP_SLLW == 73

OP_SLT == 74

OP_SLTI == 75

OP_SLTIU == 76

OP_SLTU == 77

OP_SRA == 78

OP_SRAI == 79

OP_SRAIW == 80

OP_SRAW == 81

OP_SRL == 82

OP_SRLI == 83

OP_SRLIW == 84

OP_SRLW == 85

OP_SUB == 86

OP_SUBW == 87

OP_SW == 88

OP_XOR == 89

OP_XORI == 90

OP_LR_W == 91

OP_SC_W == 92

OP_AMOSWAP_W == 93

OP_AMOADD_W == 94

OP_AMOXOR_W == 95

OP_AMOAND_W == 96

OP_AMOOR_W == 97

OP_AMOMIN_W == 98

OP_AMOMAX_W == 99

OP_AMOMINU_W == 100

OP_AMOMAXU_W == 101

OP_LR_D == 102

OP_SC_D == 103

OP_AMOSWAP_D == 104

OP_AMOADD_D == 105

OP_AMOXOR_D == 106

OP_AMOAND_D == 107

OP_AMOOR_D == 108

OP_AMOMIN_D == 109

OP_AMOMAX_D == 110

OP_AMOMINU_D == 111

OP_AMOMAXU_D == 112

OP_ADDUW == 113

OP_ANDN == 114

OP_BCLR == 115

OP_BCLRI == 116

OP_BEXT == 117

OP_BEXTI == 118

OP_BINV == 119

OP_BINVI == 120

OP_BSET == 121

OP_BSETI == 122

OP_CLMUL == 123

OP_CLMULH == 124

OP_CLMULR == 125

OP_CLZ == 126

OP_CLZW == 127

OP_CPOP == 128

OP_CPOPW == 129

OP_CTZ == 130

OP_CTZW == 131

OP_MAX == 132

OP_MAXU == 133

OP_MIN == 134

OP_MINU == 135

OP_ORCB == 136

OP_ORN == 137

OP_REV8 == 138

OP_ROL == 139

OP_ROLW == 140

OP_ROR == 141

OP_RORI == 142

OP_RORIW == 143

OP_RORW == 144

OP_SEXTB == 145

OP_SEXTH == 146

OP_SH1ADD == 147

OP_SH1ADDUW == 148

OP_SH2ADD == 149

OP_SH2ADDUW == 150

OP_SH3ADD == 151

OP_SH3ADDUW == 152

OP_SLLIUW == 153

OP_XNOR == 154

OP_ZEXTH == 155

OP_WIDE_MUL == 156

OP_WIDE_MULU == 157

OP_WIDE_MULSU == 158

OP_WIDE_DIV == 159

OP_WIDE_DIVU == 160

OP_FAR_JUMP_REL == 161

OP_FAR_JUMP_ABS == 162

OP_ADC == 163

OP_SBB == 164

OP_ADCS == 165

OP_SBBS == 166

OP_ADD3A == 167

OP_ADD3B == 168

OP_ADD3C == 169

OP_CUSTOM_LOAD_UIMM == 170

OP_CUSTOM_LOAD_IMM == 171

OP_CUSTOM_TRACE_END == 172

MINIMAL_OPCODE == OP_UNLOADED

MAXIMUM_OPCODE == OP_CUSTOM_TRACE_END

\* The OP_* constants in the order they are declared, each with its
\* identifier less the OP_ prefix.
OpcodeConstants ==
    <<
       [name |-> "UNLOADED", value |-> OP_UNLOADED],
       [name |-> "ADD", value |-> OP_ADD],
       [name |-> "ADDI", value |-> OP_ADDI],
       [name |-> "ADDIW", value |-> OP_ADDIW],
       [name |-> "ADDW", value |-> OP_ADDW],
       [name |-> "AND", value |-> OP_AND],
       [name |-> "ANDI", value |-> OP_ANDI],
       [name |-> "AUIPC", value |-> OP_AUIPC],
       [name |-> "BEQ", value |-> OP_BEQ],
       [name |-> "BGE", value |-> OP_BGE],
       [name |-> "BGEU", value |-> OP_BGEU],
       [name |-> "BLT", value |-> OP_BLT],
       [name |-> "BLTU", value |-> OP_BLTU],
       [name |-> "BNE", value |-> OP_BNE],
       [name |-> "DIV", value |-> OP_DIV],
       [name |-> "DIVU", value |-> OP_DIVU],
       [name |-> "DIVUW", value |-> OP_DIVUW],
       [name |-> "DIVW", value |-> OP_DIVW],
       [name |-> "EBREAK", value |-> OP_EBREAK],
       [name |-> "ECALL", value |-> OP_ECALL],
       [name |-> "FENCE", value |-> OP_FENCE],
       [name |-> "FENCEI", value |-> OP_FENCEI],
       [name |-> "JAL", value |-> OP_JAL],
       [name |-> "JALR_VERSION0", value |-> OP_JALR_VERSION0],
       [name |-> "JALR_VERSION1", value |-> OP_JALR_VERSION1],
       [name |-> "LB_VERSION0", value |-> OP_LB_VERSION0],
       [name |-> "LB_VERSION1", value |-> OP_LB_VERSION1],
       [name |-> "LBU_VERSION0", value |-> OP_LBU_VERSION0],
       [name |-> "LBU_VERSION1", value |-> OP_LBU_VERSION1],
       [name |-> "LD_VERSION0", value |-> OP_LD_VERSION0],
       [name |-> "LD_VERSION1", value |-> OP_LD_VERSION1],
       [name |-> "LH_VERSION0", value |-> OP_LH_VERSION0],
       [name |-> "LH_VERSION1", value |-> OP_LH_VERSION1],
       [name |-> "LHU_VERSION0", value |-> OP_LHU_VERSION0],
       [name |-> "LHU_VERSION1", value |-> OP_LHU_VERSION1],
       [name |-> "LUI", value |-> OP_LUI],
       [name |-> "LW_VERSION0", value |-> OP_LW_VERSION0],
       [name |-> "LW_VERSION1", value |-> OP_LW_VERSION1],
       [name |-> "LWU_VERSION0", value |-> OP_LWU_VERSION0],
       [name |-> "LWU_VERSION1", value |-> OP_LWU_VERSION1],
       [name |-> "MUL", value |-> OP_MUL],
       [name |-> "MULH", value |-> OP_MULH],
       [name |-> "MULHSU", value |-> OP_MULHSU],
       [name |-> "MULHU", value |-> OP_MULHU],
       [name |-> "MULW", value |-> OP_MULW],
       [name |-> "OR", value |-> OP_OR],
       [name |-> "ORI", value |-> OP_ORI],
       [name |-> "REM", value |-> OP_REM],
       [name |-> "REMU", value |-> OP_REMU],
       [name |-> "REMUW", value |-> OP_REMUW],
       [name |-> "REMW", value |-> OP_REMW],
       [name |-> "SB", value |-> OP_SB],
       [name |-> "SD", value |-> OP_SD],
       [name |-> "SH", value |-> OP_SH],
       [name |-> "SLL", value |-> OP_SLL],
       [name |-> "SLLI", value |-> OP_SLLI],
       [name |-> "SLLIW", value |-> OP_SLLIW],
       [name |-> "SLLW", value |-> OP_SLLW],
       [name |-> "SLT", value |-> OP_SLT],
       [name |-> "SLTI", value |-> OP_SLTI],
       [name |-> "SLTIU", value |-> OP_SLTIU],
       [name |-> "SLTU", value |-> OP_SLTU],
       [name |-> "SRA", value |-> OP_SRA],
       [name |-> "SRAI", value |-> OP_SRAI],
       [name |-> "SRAIW", value |-> OP_SRAIW],
       [name |-> "SRAW", value |-> OP_SRAW],
       [name |-> "SRL", value |-> OP_SRL],
       [name |-> "SRLI", value |-> OP_SRLI],
       [name |-> "SRLIW", value |-> OP_SRLIW],
       [name |-> "SRLW", value |-> OP_SRLW],
       [name |-> "SUB", value |-> OP_SUB],
       [name |-> "SUBW", value |-> OP_SUBW],
       [name |-> "SW", value |-> OP_SW],
       [name |-> "XOR", value |-> OP_XOR],
       [name |-> "XORI", value |-> OP_XORI],
       [name |-> "LR_W", value |-> OP_LR_W],
       [name |-> "SC_W", value |-> OP_SC_W],
       [name |-> "AMOSWAP_W", value |-> OP_AMOSWAP_W],
       [name |-> "AMOADD_W", value |-> OP_AMOADD_W],
       [name |-> "AMOXOR_W", value |-> OP_AMOXOR_W],
       [name |-> "AMOAND_W", value |-> OP_AMOAND_W],
       [name |-> "AMOOR_W", value |-> OP_AMOOR_W],
       [name |-> "AMOMIN_W", value |-> OP_AMOMIN_W],
       [name |-> "AMOMAX_W", value |-> OP_AMOMAX_W],
       [name |-> "AMOMINU_W", value |-> OP_AMOMINU_W],
       [name |-> "AMOMAXU_W", value |-> OP_AMOMAXU_W],
       [name |-> "LR_D", value |-> OP_LR_D],
       [name |-> "SC_D", value |-> OP_SC_D],
       [name |-> "AMOSWAP_D", value |-> OP_AMOSWAP_D],
       [name |-> "AMOADD_D", value |-> OP_AMOADD_D],
       [name |-> "AMOXOR_D", value |-> OP_AMOXOR_D],
       [name |-> "AMOAND_D", value |-> OP_AMOAND_D],
       [name |-> "AMOOR_D", value |-> OP_AMOOR_D],
       [name |-> "AMOMIN_D", value |-> OP_AMOMIN_D],
       [name |-> "AMOMAX_D", value |-> OP_AMOMAX_D],
       [name |-> "AMOMINU_D", value |-> OP_AMOMINU_D],
       [name |-> "AMOMAXU_D", value |-> OP_AMOMAXU_D],
       [name |-> "ADDUW", value |-> OP_ADDUW],
       [name |-> "ANDN", value |-> OP_ANDN],
       [name |-> "BCLR", value |-> OP_BCLR],
       [name |-> "BCLRI", value |-> OP_BCLRI],
       [name |-> "BEXT", value |-> OP_BEXT],
       [name |-> "BEXTI", value |-> OP_BEXTI],
       [name |-> "BINV", value |-> OP_BINV],
       [name |-> "BINVI", value |-> OP_BINVI],
       [name |-> "BSET", value |-> OP_BSET],
       [name |-> "BSETI", value |-> OP_BSETI],
       [name |-> "CLMUL", value |-> OP_CLMUL],
       [name |-> "CLMULH", value |-> OP_CLMULH],
       [name |-> "CLMULR", value |-> OP_CLMULR],
       [name |-> "CLZ", value |-> OP_CLZ],
       [name |-> "CLZW", value |-> OP_CLZW],
       [name |-> "CPOP", value |-> OP_CPOP],
       [name |-> "CPOPW", value |-> OP_CPOPW],
       [name |-> "CTZ", value |-> OP_CTZ],
       [name |-> "CTZW", value |-> OP_CTZW],
       [name |-> "MAX", value |-> OP_MAX],
       [name |-> "MAXU", value |-> OP_MAXU],
       [name |-> "MIN", value |-> OP_MIN],
       [name |-> "MINU", value |-> OP_MINU],
       [name |-> "ORCB", value |-> OP_ORCB],
       [name |-> "ORN", value |-> OP_ORN],
       [name |-> "REV8", value |-> OP_REV8],
       [name |-> "ROL", value |-> OP_ROL],
       [name |-> "ROLW", value |-> OP_ROLW],
       [name |-> "ROR", value |-> OP_ROR],
       [name |-> "RORI", value |-> OP_RORI],
       [name |-> "RORIW", value |-> OP_RORIW],
       [name |-> "RORW", value |-> OP_RORW],
       [name |-> "SEXTB", value |-> OP_SEXTB],
       [name |-> "SEXTH", value |-> OP_SEXTH],
       [name |-> "SH1ADD", value |-> OP_SH1ADD],
       [name |-> "SH1ADDUW", value |-> OP_SH1ADDUW],
       [name |-> "SH2ADD", value |-> OP_SH2ADD],
       [name |-> "SH2ADDUW", value |-> OP_SH2ADDUW],
       [name |-> "SH3ADD", value |-> OP_SH3ADD],
       [name |-> "SH3ADDUW", value |-> OP_SH3ADDUW],
       [name |-> "SLLIUW", value |-> OP_SLLIUW],
       [name |-> "XNOR", value |-> OP_XNOR],
       [name |-> "ZEXTH", value |-> OP_ZEXTH],
       [name |-> "WIDE_MUL", value |-> OP_WIDE_MUL],
       [name |-> "WIDE_MULU", value |-> OP_WIDE_MULU],
       [name |-> "WIDE_MULSU", value |-> OP_WIDE_MULSU],
       [name |-> "WIDE_DIV", value |-> OP_WIDE_DIV],
       [name |-> "WIDE_DIVU", value |-> OP_WIDE_DIVU],
       [name |-> "FAR_JUMP_REL", value |-> OP_FAR_JUMP_REL],
       [name |-> "FAR_JUMP_ABS", value |-> OP_FAR_JUMP_ABS],
       [name |-> "ADC", value |-> OP_ADC],
       [name |-> "SBB", value |-> OP_SBB],
       [name |-> "ADCS", value |-> OP_ADCS],
       [name |-> "SBBS", value |-> OP_SBBS],
       [name |-> "ADD3A", value |-> OP_ADD3A],
       [name |-> "ADD3B", value |-> OP_ADD3B],
       [name |-> "ADD3C", value |-> OP_ADD3C],
       [name |-> "CUSTOM_LOAD_UIMM", value |-> OP_CUSTOM_LOAD_UIMM],
       [name |-> "CUSTOM_LOAD_IMM", value |-> OP_CUSTOM_LOAD_IMM],
       [name |-> "CUSTOM_TRACE_END", value |-> OP_CUSTOM_TRACE_END] >>

INSTRUCTION_OPCODE_NAMES ==
    <<
       "UNLOADED", "ADD", "ADDI", "ADDIW", "ADDW", "AND",
       "ANDI", "AUIPC", "BEQ", "BGE", "BGEU", "BLT",
       "BLTU", "BNE", "DIV", "DIVU", "DIVUW", "DIVW",
       "EBREAK", "ECALL", "FENCE", "FENCEI", "JAL", "JALR_VERSION0",
       "JALR_VERSION1", "LB_VERSION0", "LB_VERSION1", "LBU_VERSION0", "LBU_VERSION1", "LD_VERSION0",
       "LD_VERSION1", "LH_VERSION0", "LH_VERSION1", "LHU_VERSION0", "LHU_VERSION1", "LUI",
       "LW_VERSION0", "LW_VERSION1", "LWU_VERSION0", "LWU_VERSION1", "MUL", "MULH",
       "MULHSU", "MULHU", "MULW", "OR", "ORI", "REM",
       "REMU", "REMUW", "REMW", "SB", "SD", "SH",
       "SLL", "SLLI", "SLLIW", "SLLW", "SLT", "SLTI",
       "SLTIU", "SLTU", "SRA", "SRAI", "SRAIW", "SRAW",
       "SRL", "SRLI", "SRLIW", "SRLW", "SUB", "SUBW",
       "SW", "XOR", "XORI", "LR_W", "SC_W", "AMOSWAP_W",
       "AMOADD_W", "AMOXOR_W", "AMOAND_W", "AMOOR_W", "AMOMIN_W", "AMOMAX_W",
       "AMOMINU_W", "AMOMAXU_W", "LR_D", "SC_D", "AMOSWAP_D", "AMOADD_D",
       "AMOXOR_D", "AMOAND_D", "AMOOR_D", "AMOMIN_D", "AMOMAX_D", "AMOMINU_D",
       "AMOMAXU_D", "ADDUW", "ANDN", "BCLR", "BCLRI", "BEXT",
       "BEXTI", "BINV", "BINVI", "BSET", "BSETI", "CLMUL",
       "CLMULH", "CLMULR", "CLZ", "CLZW", "CPOP", "CPOPW",
       "CTZ", "CTZW", "MAX", "MAXU", "MIN", "MINU",
       "ORCB", "ORN", "REV8", "ROL", "ROLW", "ROR",
       "RORI", "RORIW", "RORW", "SEXTB", "SEXTH", "SH1ADD",
       "SH1ADDUW", "SH2ADD", "SH2ADDUW", "SH3ADD", "SH3ADDUW", "SLLIUW",
       "XNOR", "ZEXTH", "WIDE_MUL", "WIDE_MULU", "WIDE_MULSU", "WIDE_DIV",
       "WIDE_DIVU", "FAR_JUMP_REL", "FAR_JUMP_ABS", "ADC", "SBB", "ADCS",
       "SBBS", "ADD3A", "ADD3B", "ADD3C", "CUSTOM_LOAD_UIMM", "CUSTOM_LOAD_IMM",
       "CUSTOM_TRACE_END" >>

\* A mutant of instruction_opcode_name: the table is indexed by the opcode
\* itself, not by its distance from MINIMAL_OPCODE.
instruction_opcode_name_direct(i) ==
    IF i >= Len(INSTRUCTION_OPCODE_NAMES)
    THEN "panic"
    ELSE INSTRUCTION_OPCODE_NAMES[i + 1]

\* instruction_opcode_name: the array is indexed from 0 by i - MINIMAL_OPCODE;
\* the subtraction underflows, or the index is out of the array's bounds,
\* for an i outside MINIMAL_OPCODE..MAXIMUM_OPCODE, and the call panics.
instruction_opcode_name(i) ==
    IF i < MINIMAL_OPCODE \/ (i - MINIMAL_OPCODE) >= Len(INSTRUCTION_OPCODE_NAMES)
    THEN "panic"
    ELSE INSTRUCTION_OPCODE_NAMES[(i - MINIMAL_OPCODE) + 1]

\* The values an opcode byte can take.
OpcodeBytes == 0..255

InitOpcodes ==
    /\ registers = [i \in RegisterIndexes |-> Zero]
    /\ pc = Zero
    /\ memory = InitMemory
    /\ events = <<>>
    /\ last = NoCall
    /\ steps = 0
    /\ query \in OpcodeBytes
    /\ answer = <<>>

OpcodeName ==
    /\ Len(answer) = 0
    /\ answer' = <<instruction_opcode_name(query)>>
    /\ UNCHANGED <<registers, pc, memory, events, last, steps, query>>

NextOpcodes == OpcodeName

SpecOpcodes == InitOpcodes /\ [][NextOpcodes]_vars

(***************************************************************************)
(* definitions/src/instructions.rs: the decoded instruction, a u64 whose   *)
(* layout the comment at the head of the file fixes.  Every cell of the    *)
(* layout is one byte; op is the lowest.  A word is packed by OR-ing the   *)
(* fields shifted to their cells, and a field is read by shifting it down  *)
(* and truncating it to its type.                                          *)
(***************************************************************************)
\* `as u8`: the low byte.
as_u8(w) == w[1]

\* `as i32`: the low 32 bits as a signed integer.
as_i32(w) ==
    IF w[4] < 128
    THEN w[1] + 256 * w[2] + 65536 * w[3] + 16777216 * w[4]
    ELSE ((w[1] + 256 * w[2] + 65536 * w[3] + 16777216 * (w[4] - 128))
          - 2147483647) - 1

\* The field v placed `shift` bits up.
Cell(v, shift) == Shl(v, from_u8(shift))

Or3(a, b, c) == BitOr(a, BitOr(b, c))

\* The four low cells every form shares: | flg | op2 | rd | op |.
LowCells(op, rd, op2, flg) ==
    BitOr(Or3(from_u8(op), Cell(from_u8(rd), 8), Cell(from_u8(op2), 16)),
          Cell(from_u8(flg), 24))

\* |           | rs2 | rs1 | flg | op2 | rd  | op  | R-type
Rtype(op, rd, op2, flg, rs1, rs2) ==
    Or3(LowCells(op, rd, op2, flg), Cell(from_u8(rs1), 32), Cell(from_u8(rs2), 40))

\* A mutant of Itype: the immediate is placed in the upper half of the word,
\* over the rs1 cell.
Itype_upper_half(op, rd, op2, flg, rs1, immediate) ==
    Or3(LowCells(op, rd, op2, flg), Cell(from_u8(rs1), 32), Cell(from_i32(immediate), 32))

\* |    immediate    | rs1 | flg | op2 | rd  | op  | I-type
Itype(op, rd, op2, flg, rs1, immediate) ==
    Or3(LowCells(op, rd, op2, flg), Cell(from_u8(rs1), 32), Cell(from_i32(immediate), 40))

\* |    immediate    | rs1 | flg | op2 | rs2 | op  | S-type/B-type
Stype(op, rs2, op2, flg, rs1, immediate) ==
    Or3(LowCells(op, rs2, op2, flg), Cell(from_u8(rs1), 32), Cell(from_i32(immediate), 40))

\* |       immediate       | flg | op2 | rd  | op  | U-type/J-type
Utype(op, rd, op2, flg, immediate) ==
    BitOr(LowCells(op, rd, op2, flg), Cell(from_i32(immediate), 32))

\* The fields read back from a word of each form.  A form without a field
\* reads it as 0.
Fields(op, rd, op2, flg, rs1, rs2, immediate) ==
    [op |-> op, rd |-> rd, op2 |-> op2, flg |-> flg, rs1 |-> rs1, rs2 |-> rs2,
     immediate |-> immediate]

RtypeFields(w) ==
    Fields(as_u8(w), as_u8(Shr(w, from_u8(8))), as_u8(Shr(w, from_u8(16))),
           as_u8(Shr(w, from_u8(24))), as_u8(Shr(w, from_u8(32))),
           as_u8(Shr(w, from_u8(40))), 0)

ItypeFields(w) ==
    Fields(as_u8(w), as_u8(Shr(w, from_u8(8))), as_u8(Shr(w, from_u8(16))),
           as_u8(Shr(w, from_u8(24))), as_u8(Shr(w, from_u8(32))), 0,
           as_i32(signed_shr(w, from_u8(40))))

StypeFields(w) ==
    Fields(as_u8(w), 0, as_u8(Shr(w, from_u8(16))),
           as_u8(Shr(w, from_u8(24))), as_u8(Shr(w, from_u8(32))),
           as_u8(Shr(w, from_u8(8))), as_i32(signed_shr(w, from_u8(40))))

UtypeFields(w) ==
    Fields(as_u8(w), as_u8(Shr(w, from_u8(8))), as_u8(Shr(w, from_u8(16))),
           as_u8(Shr(w, from_u8(24))), 0, 0, as_i32(signed_shr(w, from_u8(32))))

\* The fields the model packs: two opcodes (OP_ADDI and the highest), the
\* lowest and highest register, both instruction lengths with and without a
\* flag bit, every rs1, and immediates at the edges of 12, 24 and 32 bits.
PackOps == {OP_ADDI, OP_CUSTOM_TRACE_END}

PackRegs == {0, 31}

PackFlags == {1, 2, 18}

PackImmediates ==
    {0, 1, -1, 2047, -2048, 8388607, -8388608, 8388608, -8388609,
     2147483647, (-2147483647) - 1}

InitCodec ==
    /\ registers = [i \in RegisterIndexes |-> Zero]
    /\ pc = Zero
    /\ memory = InitMemory
    /\ events = <<>>
    /\ last = NoCall
    /\ steps = 0
    /\ query \in {Fields(op, rd, 0, flg, rs1, rs2, imm) :
                    op \in PackOps, rd \in PackRegs, flg \in PackFlags,
                    rs1 \in RegisterIndexes, rs2 \in PackRegs,
                    imm \in PackImmediates}
    /\ answer = <<>>

\* A word of the form is packed from the fields of the query and its fields
\* are read back; the answer holds the form, the word and the fields read.
Packed(form, w, fields) ==
    /\ Len(answer) = 0
    /\ answer' = <<[form |-> form, word |-> w, fields |-> fields]>>
    /\ UNCHANGED <<registers, pc, memory, events, last, steps, query>>

PackRtype ==
    LET w == Rtype(query.op, query.rd, query.op2, query.flg, query.rs1, query.rs2)
    IN  Packed("R", w, RtypeFields(w))

PackItype ==
    LET w == Itype(query.op, query.rd, query.op2, query.flg, query.rs1, query.immediate)
    IN  Packed("I", w, ItypeFields(w))

PackStype ==
    LET w == Stype(query.op, query.rs2, query.op2, query.flg, query.rs1, query.immediate)
    IN  Packed("S", w, StypeFields(w))

PackUtype ==
    LET w == Utype(query.op, query.rd, query.op2, query.flg, query.immediate)
    IN  Packed("U", w, UtypeFields(w))

NextCodec ==
    \/ PackRtype
    \/ PackItype
    \/ PackStype
    \/ PackUtype

SpecCodec == InitCodec /\ [][NextCodec]_vars

(***************************************************************************)
(* What the properties below speak of.                                     *)
(***************************************************************************)
LoadOps == {"lb", "lh", "lw", "ld", "lbu", "lhu", "lwu"}

SignedLoadOps == {"lb", "lh", "lw", "ld"}

StoreOps == {"sb", "sh", "sw", "sd"}

\* The width in bytes of a load or store.
Width(op) ==
    CASE op \in {"lb", "lbu", "sb"} -> 1
      [] op \in {"lh", "lhu", "sh"} -> 2
      [] op \in {"lw", "lwu", "sw"} -> 4
      [] op \in {"ld", "sd"} -> 8

\* The events of a kind in the trace of the last call, and their places.
EventsOf(ev) == {i \in 1..Len(events) : events[i].ev = ev}

\* address + bytes does not fit in 64 bits: address is one of the last
\* `bytes` values below 2^64.
EndOverflows(address, bytes) ==
    \E k \in 1..bytes : overflowing_add(address, from_u8(k)) = Zero

\* address + bytes is exactly RISCV_MAX_MEMORY.
EndIsMax(address, bytes) == address = from_u32(RISCV_MAX_MEMORY - bytes)

\* A value as a 64-bit even number.
Even(v) == v[1] % 2 = 0

\* The machine with the trace of the last call.  In a step, Mac is the
\* machine the call was handed and Machine' the machine it left.
Machine == [registers |-> registers, pc |-> pc, memory |-> memory, events |-> events]

\* The effective address of the load or store `call` made on machine m.
EffectiveAddress(m, call) == overflowing_add(m.registers[call.rs1], from_i32(call.imm))

(***************************************************************************)
(* C1.  After any sequence of the executors, called with any register      *)
(* indices including rd = 0, register x0 holds 0: a write whose            *)
(* destination is x0 is dropped.                                           *)
(***************************************************************************)
C1_X0IsZero == registers[0] = Zero

\* An executor tried to write a non-zero value to x0.
C1_Witness ==
    /\ last.op \in {"add", "addi", "lb", "xori", "jal"}
    /\ last.rd = 0
    /\ \E i \in EventsOf("update_register") :
          events[i].n = 0 /\ events[i].args[1] # Zero

(***************************************************************************)
(* C2.  A VERSION0 load of B bytes at effective address A such that A + B  *)
(* overflows or equals RISCV_MAX_MEMORY returns MemOutOfBound, and no      *)
(* memory load is issued.                                                  *)
(***************************************************************************)
C2_Step(m, call, after) ==
    LET address == EffectiveAddress(m, call)
        bytes == Width(call.op)
    IN  (/\ call.op \in LoadOps
         /\ call.version0
         /\ EndOverflows(address, bytes) \/ EndIsMax(address, bytes))
        => (/\ call.res = "MemOutOfBound"
            /\ \A i \in 1..Len(after.events) : after.events[i].ev # "load"
            /\ after.registers = m.registers)

C2_Version0BoundaryRejected ==
    [][\A call \in {last'}, after \in {Machine'} : C2_Step(Mac, call, after)]_vars

\* Scenario 3 of the specification: LW_V0 at RISCV_MAX_MEMORY - 4.
C2_Witness ==
    /\ last.op = "lw" /\ last.version0 /\ last.rs1 = 0
    /\ last.imm = RISCV_MAX_MEMORY - 4
    /\ last.res = "MemOutOfBound"

(***************************************************************************)
(* C3.  A VERSION1 load makes no boundary check of its own: the memory     *)
(* load is the first thing it does, and its outcome is the outcome of the  *)
(* memory load (the value read, extended, written to rd; or the error).    *)
(* So a load that ends at RISCV_MAX_MEMORY succeeds.  A VERSION0 and a     *)
(* VERSION1 load of the same width at the same address have the same       *)
(* outcome, except where A + B overflows or equals RISCV_MAX_MEMORY.       *)
(***************************************************************************)
\* The load executor named op.
Load(op, m, rd, rs1, imm, version0) ==
    CASE op = "lb" -> lb(m, rd, rs1, imm, version0)
      [] op = "lh" -> lh(m, rd, rs1, imm, version0)
      [] op = "lw" -> lw(m, rd, rs1, imm, version0)
      [] op = "ld" -> ld(m, rd, rs1, imm, version0)
      [] op = "lbu" -> lbu(m, rd, rs1, imm, version0)
      [] op = "lhu" -> lhu(m, rd, rs1, imm, version0)
      [] op = "lwu" -> lwu(m, rd, rs1, imm, version0)

\* What a load leaves, less the trace.
Outcome(r) == <<r.res, r.m.registers, r.m.pc, r.m.memory>>

C3_Step(m, call, after) ==
    call.op \in LoadOps =>
        LET op == call.op
            address == EffectiveAddress(m, call)
            bytes == Width(op)
            mem == MemLoad(m, address, bytes)
            value == IF op \in SignedLoadOps
                     THEN sign_extend(mem.value, from_u8(8 * bytes))
                     ELSE mem.value
            v0 == Load(op, m, call.rd, call.rs1, call.imm, TRUE)
            v1 == Load(op, m, call.rd, call.rs1, call.imm, FALSE)
        IN  /\ ~call.version0 =>
                /\ Len(after.events) >= 1
                /\ Head(after.events) = Event("load", bytes, <<address>>, "")
                /\ call.res = mem.res
                /\ call.res = "Ok" /\ call.rd # 0 =>
                       after.registers = [m.registers EXCEPT ![call.rd] = value]
                /\ call.res # "Ok" \/ call.rd = 0 => after.registers = m.registers
                /\ EndIsMax(address, bytes) => call.res = "Ok"
            /\ ~(EndOverflows(address, bytes) \/ EndIsMax(address, bytes)) =>
                Outcome(v0) = Outcome(v1)

C3_Version1IsTheMemoryLoad ==
    [][\A call \in {last'}, after \in {Machine'} : C3_Step(Mac, call, after)]_vars

\* Scenario 4 of the specification: LW_V1 at RISCV_MAX_MEMORY - 4 succeeds
\* and reads the last four bytes of the memory.
C3_Witness ==
    /\ last.op = "lw" /\ ~last.version0 /\ last.rs1 = 0 /\ last.rd = RA
    /\ last.imm = RISCV_MAX_MEMORY - 4
    /\ last.res = "Ok"
    /\ registers[RA] = <<5, 6, 7, 8, 0, 0, 0, 0>>

(***************************************************************************)
(* C4.  A load or store of B bytes at A that completes without error       *)
(* accessed bytes within [0, RISCV_MAX_MEMORY); a VERSION0 load that       *)
(* completes without error has A + B < RISCV_MAX_MEMORY.                   *)
(***************************************************************************)
C4_AccessWithinMemory ==
    last.op \in LoadOps \cup StoreOps /\ last.res = "Ok" =>
        /\ EventsOf("load") \cup EventsOf("store") # {}
        /\ \A i \in EventsOf("load") \cup EventsOf("store") :
            LET a == Small(events[i].args[1])
                bytes == events[i].n
            IN  /\ bytes = Width(last.op)
                /\ a >= 0 /\ a < RISCV_MAX_MEMORY
                /\ a + bytes - 1 < RISCV_MAX_MEMORY
                /\ last.op \in LoadOps /\ last.version0 =>
                       a + bytes < RISCV_MAX_MEMORY

\* A VERSION0 load that ends one byte below RISCV_MAX_MEMORY, from x1 = -1.
C4_Witness ==
    /\ last.op = "lw" /\ last.version0 /\ last.res = "Ok"
    /\ \E i \in EventsOf("load") :
          events[i].args[1] = from_u32(RISCV_MAX_MEMORY - 5)

\* The places of the events named ev in a trace.
EventsIn(es, ev) == {i \in 1..Len(es) : es[i].ev = ev}

\* The link and the target of the JAL `call` made on machine m.
Link(m, call) == overflowing_add(m.pc, from_u8(call.rs2))

Target(m, call) == overflowing_add(m.pc, from_i32(call.imm))

(***************************************************************************)
(* C5.  JAL with destination rd, immediate imm and length len, executed at *)
(* PC = P, leaves x[rd] = P + len (wrapping; x0 stays 0) and               *)
(* PC = P + sign_ext(imm) (wrapping).  Both are computed from P, and the   *)
(* link is written to rd before the PC is updated.                         *)
(***************************************************************************)
C5_Step(m, call, after) ==
    call.op = "jal" =>
        LET link == Link(m, call)
            target == Target(m, call)
            writes == EventsIn(after.events, "update_register")
            moves == EventsIn(after.events, "update_pc")
        IN  /\ after.pc = target
            /\ after.registers =
                   IF call.rd = 0 THEN m.registers
                   ELSE [m.registers EXCEPT ![call.rd] = link]
            /\ after.registers[0] = Zero
            /\ Cardinality(writes) = 1 /\ Cardinality(moves) = 1
            /\ \A i \in writes, j \in moves :
                   /\ i < j
                   /\ after.events[i].n = call.rd
                   /\ after.events[i].args = <<link>>
                   /\ after.events[j].args = <<target>>

C5_JalLinksThenJumps ==
    [][\A call \in {last'}, after \in {Machine'} : C5_Step(Mac, call, after)]_vars

\* JAL of length 4 with immediate 8 at PC = 2^64 - 2: the link wraps to 2
\* and the PC to 6.
C5_Witness ==
    /\ last.op = "jal" /\ last.rd = RA /\ last.rs2 = 4 /\ last.imm = 8
    /\ registers[RA] = from_u32(2)
    /\ pc = from_u32(6)

(***************************************************************************)
(* C6.  Every JAL fires the jump probe once, with (link, target).  The     *)
(* function_call probes, function_call_arguments and function_call2, fire  *)
(* when and only when rd is the return-address register x1; their          *)
(* current_pc is the PC of the JAL itself, their next_pc is the target,    *)
(* and they fire before the PC is updated.                                 *)
(***************************************************************************)
C6_Step(m, call, after) ==
    call.op = "jal" =>
        LET es == after.events
            jumps == EventsIn(es, "jump")
            calls == EventsIn(es, "function_call_arguments")
            calls2 == EventsIn(es, "function_call2")
            moves == EventsIn(es, "update_pc")
        IN  /\ Cardinality(jumps) = 1
            /\ \A i \in jumps :
                   es[i].args = <<Link(m, call), Target(m, call)>>
            /\ call.rd = RA =>
                   /\ Cardinality(calls) = 1 /\ Cardinality(calls2) = 1
                   /\ \A i \in calls \cup calls2 :
                          /\ es[i].args[1] = m.pc
                          /\ es[i].args[2] = Target(m, call)
                          /\ \A j \in moves : i < j
            /\ call.rd # RA => calls = {} /\ calls2 = {}

C6_JalFiresItsProbes ==
    [][\A call \in {last'}, after \in {Machine'} : C6_Step(Mac, call, after)]_vars

\* Scenario 8 of the specification: a JAL with rd = x1 away from PC = 0 has
\* fired function_call with the PC of the JAL and the target.
C6_Witness ==
    /\ last.op = "jal" /\ last.rd = RA /\ last.imm = 8
    /\ pc = from_u32(16)
    /\ \E i \in EventsOf("function_call2") :
          /\ events[i].args[1] = from_u32(8)
          /\ events[i].args[2] = from_u32(16)

(***************************************************************************)
(* C7.  Every probe function (probe_jump, probe_function_call,             *)
(* probe_function_return, probe_syscall, probe_syscall_return) leaves the  *)
(* registers, the PC and the memory as they were; so JAL leaves the same   *)
(* machine as JAL with its probe calls removed.                            *)
(***************************************************************************)
ProbeOps ==
    {"probe_function_call", "probe_function_return", "probe_jump",
     "probe_rs_probe_function_call", "probe_rs_probe_function_return",
     "probe_rs_probe_jump", "probe_syscall", "probe_syscall_return"}

\* jal of common.rs, lines 383, 384, 385 and 390 only.
JalWithoutProbes(m, rd, imm, xbytes) ==
    LET link == overflowing_add(m.pc, from_u8(xbytes))
        m1 == update_register(m, rd, link)
        next_pc == overflowing_add(m1.pc, from_i32(imm))
    IN  update_pc(m1, next_pc)

C7_Step(m, call, after) ==
    /\ call.op \in ProbeOps =>
          /\ after.registers = m.registers
          /\ after.pc = m.pc
          /\ after.memory = m.memory
          /\ after.events # <<>>
    /\ call.op = "jal" =>
          LET bare == JalWithoutProbes(m, call.rd, call.imm, call.rs2)
          IN  /\ after.registers = bare.registers
              /\ after.pc = bare.pc
              /\ after.memory = bare.memory
              /\ EventsIn(after.events, "jump") # {}

C7_ProbesLeaveTheMachine ==
    [][\A call \in {last'}, after \in {Machine'} : C7_Step(Mac, call, after)]_vars

\* The jump probe was fired towards 4096 on a machine standing elsewhere,
\* with a written register.
C7_Witness ==
    /\ last.op = "probe_jump"
    /\ registers[RA] # Zero
    /\ pc # from_u32(4096)
    /\ \E i \in EventsOf("jump") : events[i].args[2] = from_u32(4096)

(***************************************************************************)
(* C8.  The first-level opcode constants are pairwise distinct and form    *)
(* the contiguous range 0x10 (UNLOADED) .. 0xAC (CUSTOM_TRACE_END) in the  *)
(* order of the specification's enumeration, so op - 0x10 indexes the      *)
(* tables for every defined opcode; the name table has                     *)
(* MAXIMUM_OPCODE - MINIMAL_OPCODE + 1 entries, and                        *)
(* instruction_opcode_name(op) is the name of the constant whose value is  *)
(* op, for every op of the range.                                          *)
(***************************************************************************)
\* The enumeration of the specification, section 6, as written there.
SpecEnumeration ==
    <<
       "UNLOADED", "ADD", "ADDI", "ADDIW", "ADDW", "AND", "ANDI", "AUIPC",
       "BEQ", "BGE", "BGEU", "BLT", "BLTU", "BNE", "DIV", "DIVU", "DIVUW",
       "DIVW", "EBREAK", "ECALL", "FENCE", "FENCEI", "JAL", "JALR_V0",
       "JALR_V1", "LB_V0", "LB_V1", "LBU_V0", "LBU_V1", "LD_V0", "LD_V1",
       "LH_V0", "LH_V1", "LHU_V0", "LHU_V1", "LUI", "LW_V0", "LW_V1",
       "LWU_V0", "LWU_V1", "MUL", "MULH", "MULHSU", "MULHU", "MULW", "OR",
       "ORI", "REM", "REMU", "REMUW", "REMW", "SB", "SD", "SH", "SLL",
       "SLLI", "SLLIW", "SLLW", "SLT", "SLTI", "SLTIU", "SLTU", "SRA",
       "SRAI", "SRAIW", "SRAW", "SRL", "SRLI", "SRLIW", "SRLW", "SUB",
       "SUBW", "SW", "XOR", "XORI", "LR_W", "SC_W", "AMOSWAP_W",
       "AMOADD_W", "AMOXOR_W", "AMOAND_W", "AMOOR_W", "AMOMIN_W",
       "AMOMAX_W", "AMOMINU_W", "AMOMAXU_W", "LR_D", "SC_D", "AMOSWAP_D",
       "AMOADD_D", "AMOXOR_D", "AMOAND_D", "AMOOR_D", "AMOMIN_D",
       "AMOMAX_D", "AMOMINU_D", "AMOMAXU_D", "ADDUW", "ANDN", "BCLR",
       "BCLRI", "BEXT", "BEXTI", "BINV", "BINVI", "BSET", "BSETI", "CLMUL",
       "CLMULH", "CLMULR", "CLZ", "CLZW", "CPOP", "CPOPW", "CTZ", "CTZW",
       "MAX", "MAXU", "MIN", "MINU", "ORCB", "ORN", "REV8", "ROL", "ROLW",
       "ROR", "RORI", "RORIW", "RORW", "SEXTB", "SEXTH", "SH1ADD",
       "SH1ADDUW", "SH2ADD", "SH2ADDUW", "SH3ADD", "SH3ADDUW", "SLLIUW",
       "XNOR", "ZEXTH", "WIDE_MUL", "WIDE_MULU", "WIDE_MULSU", "WIDE_DIV",
       "WIDE_DIVU", "FAR_JUMP_REL", "FAR_JUMP_ABS", "ADC", "SBB", "ADCS",
       "SBBS", "ADD3A", "ADD3B", "ADD3C", "CUSTOM_LOAD_UIMM",
       "CUSTOM_LOAD_IMM", "CUSTOM_TRACE_END"
    >>

\* The specification writes V0 and V1 for the VERSION0 and VERSION1 of the
\* constants' names.
Abbreviations ==
    {
       <<"JALR_V0", "JALR_VERSION0">>, <<"JALR_V1", "JALR_VERSION1">>,
       <<"LB_V0", "LB_VERSION0">>, <<"LB_V1", "LB_VERSION1">>,
       <<"LBU_V0", "LBU_VERSION0">>, <<"LBU_V1", "LBU_VERSION1">>,
       <<"LD_V0", "LD_VERSION0">>, <<"LD_V1", "LD_VERSION1">>,
       <<"LH_V0", "LH_VERSION0">>, <<"LH_V1", "LH_VERSION1">>,
       <<"LHU_V0", "LHU_VERSION0">>, <<"LHU_V1", "LHU_VERSION1">>,
       <<"LW_V0", "LW_VERSION0">>, <<"LW_V1", "LW_VERSION1">>,
       <<"LWU_V0", "LWU_VERSION0">>, <<"LWU_V1", "LWU_VERSION1">>
    }

Expanded(name) ==
    IF \E p \in Abbreviations : p[1] = name
    THEN (CHOOSE p \in Abbreviations : p[1] = name)[2]
    ELSE name

C8_OpcodesContiguousAndNamed ==
    LET n == Len(OpcodeConstants)
    IN  /\ MINIMAL_OPCODE = 16 /\ MAXIMUM_OPCODE = 172
        /\ OpcodeConstants[1].name = "UNLOADED"
        /\ OpcodeConstants[n].name = "CUSTOM_TRACE_END"
        /\ n = MAXIMUM_OPCODE - MINIMAL_OPCODE + 1
        /\ \A i \in 1..n : OpcodeConstants[i].value = MINIMAL_OPCODE + (i - 1)
        /\ \A i, j \in 1..n :
               i # j => /\ OpcodeConstants[i].value # OpcodeConstants[j].value
                        /\ OpcodeConstants[i].name # OpcodeConstants[j].name
        /\ Len(SpecEnumeration) = n
        /\ \A i \in 1..n : Expanded(SpecEnumeration[i]) = OpcodeConstants[i].name
        /\ Len(INSTRUCTION_OPCODE_NAMES) = MAXIMUM_OPCODE - MINIMAL_OPCODE + 1
        /\ (Len(answer) = 1 /\ query \in MINIMAL_OPCODE..MAXIMUM_OPCODE) =>
               \E i \in 1..n : /\ OpcodeConstants[i].value = query
                               /\ answer = <<OpcodeConstants[i].name>>

\* The name of the last opcode, 0xAC, was asked for.
C8_Witness == query = 172 /\ answer = <<"CUSTOM_TRACE_END">>

\* The immediates that fit the three cells (24 bits) of an I-type, S-type or
\* B-type word.
Fits24(immediate) == immediate >= -8388608 /\ immediate <= 8388607

\* The fields of the form that word a carries are read back as they were
\* packed, the immediate apart.
RecoveredCells(a, q) ==
    /\ a.fields.op = q.op /\ a.fields.op2 = q.op2 /\ a.fields.flg = q.flg
    /\ a.form \in {"R", "I", "U"} => a.fields.rd = q.rd
    /\ a.form \in {"R", "I", "S"} => a.fields.rs1 = q.rs1
    /\ a.form \in {"R", "S"} => a.fields.rs2 = q.rs2

(***************************************************************************)
(* C9, as the code has it.  The fields of the decoded word occupy disjoint *)
(* cells, and every op, register index, op2 and flg is read back as        *)
(* packed, in every form and whatever the immediate.  An I-type, S-type or *)
(* B-type word holds rs1 in bits 32..39 and its immediate in the 24 bits   *)
(* 40..63: the immediate is read back exactly when it fits 24 signed bits. *)
(* Only a U-type or J-type word holds a 32-bit immediate in bits 32..63,   *)
(* read back for every 32-bit value.                                       *)
(***************************************************************************)
C9_FieldsRecovered24 ==
    Len(answer) = 1 =>
        LET a == answer[1]
            q == query
        IN  /\ RecoveredCells(a, q)
            /\ a.form \in {"R", "I", "S"} => a.word[5] = q.rs1
            /\ a.form \in {"I", "S"} =>
                   (Fits24(q.immediate) <=> a.fields.immediate = q.immediate)
            /\ a.form = "U" =>
                   /\ a.fields.immediate = q.immediate
                   /\ as_i32(Shr(a.word, from_u8(32))) = q.immediate

\* An I-type word with the highest register as rs1 and the lowest 24-bit
\* immediate, both read back.
C9_Witness ==
    /\ Len(answer) = 1
    /\ answer[1].form = "I"
    /\ query.rs1 = 31 /\ query.immediate = -8388608
    /\ answer[1].fields.rs1 = 31 /\ answer[1].fields.immediate = -8388608

\* C9 as stated: in an I-type, S-type or B-type word, rs1 and every 32-bit
\* immediate are both read back exactly.
C9_AsStated ==
    Len(answer) = 1 /\ answer[1].form \in {"I", "S"} =>
        /\ answer[1].fields.rs1 = query.rs1
        /\ answer[1].fields.immediate = query.immediate

(***************************************************************************)
(* C10, as the code has it.  jal adds the immediate it is handed to the    *)
(* PC and checks nothing, so the PC stays a multiple of 2 only across      *)
(* immediates that are multiples of 2: from an even PC, every executor of  *)
(* common.rs leaves the PC even, but for a JAL whose immediate is odd,     *)
(* which leaves it odd.                                                    *)
(***************************************************************************)
C10_Step(m, call, after) ==
    (call.op # "none" /\ Even(m.pc)) =>
        (Even(after.pc) <=> ~(call.op = "jal" /\ call.imm % 2 # 0))

C10_PcEvenAcrossEvenImmediates ==
    [][\A call \in {last'}, after \in {Machine'} : C10_Step(Mac, call, after)]_vars

\* Two JALs with the even immediate -2 from PC = 0: the PC is 2^64 - 4.
C10_Witness ==
    /\ last.op = "jal" /\ last.imm = -2
    /\ steps = 2
    /\ pc = from_i32(-4)

\* C10 as stated: the PC is even after any sequence of the executors, JAL
\* with any immediate included.
C10_AsStated == Even(pc)

\* The executors of common.rs that work on 32-bit words, and those of them
\* that shift.
WordOps == {"addw", "subw", "addiw", "slliw", "srliw", "sraiw"}

WordShiftOps == {"slliw", "srliw", "sraiw"}

\* The 16-bit half k (1 low, 2 high) of the low 32 bits of a value.
Half(v, k) == v[2 * k - 1] + 256 * v[2 * k]

\* A 32-bit word, given as its two 16-bit halves, sign-extended to 64 bits.
Extended32(lo, hi) ==
    LET fill == IF hi >= 32768 THEN 255 ELSE 0
    IN  <<lo % 256, lo \div 256, hi % 256, hi \div 256, fill, fill, fill, fill>>

\* The sum and the difference of two 32-bit words, modulo 2^32, in halves.
Sum32(a, b) ==
    LET lo == Half(a, 1) + Half(b, 1)
        hi == Half(a, 2) + Half(b, 2) + (lo \div 65536)
    IN  Extended32(lo % 65536, hi % 65536)

Difference32(a, b) ==
    LET lo == (65536 + Half(a, 1)) - Half(b, 1)
        hi == ((65536 + Half(a, 2)) - Half(b, 2)) - (IF lo < 65536 THEN 1 ELSE 0)
    IN  Extended32(lo % 65536, hi % 65536)

\* Bit i of the low 32 bits of a, shifted by s (0..31) as a 32-bit word:
\* left, right filling with 0, right filling with bit 31.
ShiftedBit(op, a, s, i) ==
    CASE op = "slliw" -> IF i >= s THEN Bit(a, i - s) ELSE 0
      [] op = "srliw" -> IF i + s < 32 THEN Bit(a, i + s) ELSE 0
      [] op = "sraiw" -> IF i + s < 32 THEN Bit(a, i + s) ELSE Bit(a, 31)

\* The 32-bit word of those bits, sign-extended to 64 bits.
Shifted32(op, a, s) ==
    LET half(k) ==
            LET bit(j) == ShiftedBit(op, a, s, 16 * (k - 1) + j)
            IN  bit(0) + 2 * bit(1) + 4 * bit(2) + 8 * bit(3)
                + 16 * bit(4) + 32 * bit(5) + 64 * bit(6) + 128 * bit(7)
                + 256 * (bit(8) + 2 * bit(9) + 4 * bit(10) + 8 * bit(11)
                         + 16 * bit(12) + 32 * bit(13) + 64 * bit(14)
                         + 128 * bit(15))
    IN  Extended32(half(1), half(2))

\* What a 32-bit-word executor is to write: the operation on the low 32
\* bits of its operands, sign-extended.
WordResult(m, call) ==
    LET a == m.registers[call.rs1]
        b == m.registers[call.rs2]
    IN  CASE call.op = "addw" -> Sum32(a, b)
          [] call.op = "subw" -> Difference32(a, b)
          [] call.op = "addiw" -> Sum32(a, from_i32(call.imm))
          [] call.op \in WordShiftOps -> Shifted32(call.op, a, call.imm)

(***************************************************************************)
(* C11.  On the 64-bit machine each 32-bit-word executor of common.rs      *)
(* (ADDW, SUBW, ADDIW, SLLIW, SRLIW, SRAIW with a shift amount 0..31)      *)
(* writes to rd the 32-bit result of the operation on the low 32 bits of   *)
(* its operands, sign-extended to 64 bits: the upper 32 bits of x[rs1] and *)
(* x[rs2] do not matter, and bits 32..63 of the result all equal bit 31.   *)
(***************************************************************************)
C11_Step(m, call, after) ==
    (/\ call.op \in WordOps
     /\ call.op \in WordShiftOps => call.imm \in 0..31) =>
        /\ call.rd # 0 =>
               /\ after.registers =
                      [m.registers EXCEPT ![call.rd] = WordResult(m, call)]
               /\ \A i \in 32..63 :
                      Bit(after.registers[call.rd], i)
                          = Bit(after.registers[call.rd], 31)
        /\ call.rd = 0 => after.registers = m.registers
        /\ after.pc = m.pc /\ after.memory = m.memory

C11_WordOpsSignExtend ==
    [][\A call \in {last'}, after \in {Machine'} : C11_Step(Mac, call, after)]_vars

\* The example of the claim, with x1 for both registers: x1 = 1, then
\* SLLIW x1, x1, 31 leaves x1 = 0xFFFF_FFFF_8000_0000.
C11_Witness ==
    /\ last.op = "slliw" /\ last.rd = RA /\ last.rs1 = RA /\ last.imm = 31
    /\ registers[RA] = <<0, 0, 0, 128, 255, 255, 255, 255>>

\* The loads that zero-extend.
UnsignedLoadOps == {"lbu", "lhu", "lwu"}

\* What a successful load `call` on machine m is to write: the `Width`
\* bytes of memory at the effective address, least significant first, and
\* above them the fill: the top bit of the loaded value for LB/LH/LW, 0 for
\* LBU/LHU/LWU.  LD has nothing to fill.
LoadedValue(m, call) ==
    LET a == Small(EffectiveAddress(m, call))
        bytes == Width(call.op)
        top == MemByte(m.memory, a + bytes - 1)
        fill == IF call.op \in UnsignedLoadOps THEN 0
                ELSE IF top >= 128 THEN 255 ELSE 0
    IN  AsTuple([k \in 1..8 |->
                    IF k <= bytes THEN MemByte(m.memory, a + k - 1) ELSE fill])

(***************************************************************************)
(* C12.  A successful load reads at the effective address                  *)
(* x[rs1] + sign_ext(imm), wrapping at 64 bits, and writes to rd: for      *)
(* LB/LH/LW the loaded 8/16/32-bit value sign-extended to 64 bits; for     *)
(* LBU/LHU/LWU the loaded value with all upper bits 0; for LD the loaded   *)
(* 64-bit value unchanged.                                                 *)
(***************************************************************************)
C12_Step(m, call, after) ==
    (call.op \in LoadOps /\ call.res = "Ok") =>
        LET reads == EventsIn(after.events, "load")
        IN  /\ Cardinality(reads) = 1
            /\ \A i \in reads :
                   /\ after.events[i].args = <<EffectiveAddress(m, call)>>
                   /\ after.events[i].n = Width(call.op)
            /\ call.rd # 0 =>
                   after.registers =
                       [m.registers EXCEPT ![call.rd] = LoadedValue(m, call)]
            /\ call.rd = 0 => after.registers = m.registers
            /\ call.op \in UnsignedLoadOps /\ call.rd # 0 =>
                   \A k \in (Width(call.op) + 1)..8 :
                       after.registers[call.rd][k] = 0

C12_LoadsExtend ==
    [][\A call \in {last'}, after \in {Machine'} : C12_Step(Mac, call, after)]_vars

\* LB x1, -1(x1) with x1 = 1: the address wraps to 0, where the byte 0x81
\* lies, and x1 = 0xFFFF_FFFF_FFFF_FF81.
C12_Witness ==
    /\ last.op = "lb" /\ last.rd = RA /\ last.rs1 = RA /\ last.imm = -1
    /\ last.res = "Ok"
    /\ \E i \in EventsOf("load") : events[i].args = <<Zero>>
    /\ registers[RA] = <<129, 255, 255, 255, 255, 255, 255, 255>>

\* The addresses a store of `bytes` bytes at `address` writes, when they lie
\* within the memory.
Written(address, bytes) == Small(address)..(Small(address) + bytes - 1)

(***************************************************************************)
(* C13.  A store (SB, SH, SW, SD) writes the low 1, 2, 4, 8 bytes of       *)
(* x[rs2] at the effective address x[rs1] + sign_ext(imm), wrapping at 64  *)
(* bits.  It makes no boundary check of its own, whatever the version: it  *)
(* succeeds exactly when the memory takes the access, a store that ends at *)
(* RISCV_MAX_MEMORY included.  It changes those bytes of the memory only,  *)
(* and leaves every register and the PC unchanged.                         *)
(***************************************************************************)
C13_Step(m, call, after) ==
    call.op \in StoreOps =>
        LET address == EffectiveAddress(m, call)
            bytes == Width(call.op)
            value == m.registers[call.rs2]
            writes == EventsIn(after.events, "store")
        IN  /\ after.registers = m.registers
            /\ after.pc = m.pc
            /\ after.events = <<Event("store", bytes, <<address, value>>, "")>>
            /\ call.res = "Ok" <=> InBound(address, bytes)
            /\ EndIsMax(address, bytes) => call.res = "Ok"
            /\ call.res = "Ok" =>
                   \A x \in (DOMAIN m.memory) \cup (DOMAIN after.memory)
                                \cup Written(address, bytes) :
                       MemByte(after.memory, x) =
                           IF x \in Written(address, bytes)
                           THEN value[(x - Small(address)) + 1]
                           ELSE MemByte(m.memory, x)
            /\ call.res # "Ok" => after.memory = m.memory

C13_StoresWriteTheirBytes ==
    [][\A call \in {last'}, after \in {Machine'} : C13_Step(Mac, call, after)]_vars

\* SH x1 at RISCV_MAX_MEMORY - 2 with x1 = 0x7FFF_FFFF: the store ends at
\* RISCV_MAX_MEMORY and succeeds, the last two bytes are 0xFF, the byte
\* below them is as it was.
C13_Witness ==
    /\ last.op = "sh" /\ last.rs1 = 0 /\ last.rs2 = RA
    /\ last.imm = RISCV_MAX_MEMORY - 2
    /\ last.res = "Ok"
    /\ registers[RA] = from_i32(2147483647)
    /\ MemByte(memory, RISCV_MAX_MEMORY - 1) = 255
    /\ MemByte(memory, RISCV_MAX_MEMORY - 2) = 255
    /\ MemByte(memory, RISCV_MAX_MEMORY - 3) = 6

\* The probe events in the trace of the last call.
ProbeEvents == {i \in 1..Len(events) : events[i].by # ""}

(***************************************************************************)
(* C14, as stated.  The probe_* functions of probe.rs are the only ones    *)
(* called: no executor calls the probe_jump, probe_function_call or        *)
(* probe_function_return defined in common.rs, and the probes fired by jal *)
(* are fired by the definitions of probe.rs.                               *)
(*                                                                         *)
(* The code does otherwise.  common.rs imports no probe_* function, so the *)
(* unqualified probe_jump and probe_function_call in jal are the ones      *)
(* defined further down in common.rs itself.                               *)
(***************************************************************************)
C14_AsStated ==
    last.op = "jal" =>
        /\ ProbeEvents # {}
        /\ \A i \in ProbeEvents : events[i].by = "probe.rs"

(***************************************************************************)
(* C15.  When a load executor returns an error, because the VERSION0       *)
(* boundary check fails or because the memory load fails, the registers    *)
(* and the PC are as they were before the call: rd is not written.  With   *)
(* rd = x0 nothing is skipped: the memory access is attempted as for any   *)
(* other rd, and its error is returned.                                    *)
(***************************************************************************)
C15_Step(m, call, after) ==
    call.op \in LoadOps =>
        LET address == EffectiveAddress(m, call)
            bytes == Width(call.op)
            rejected == /\ call.version0
                        /\ EndOverflows(address, bytes) \/ EndIsMax(address, bytes)
            other == Load(call.op, m, RA, call.rs1, call.imm, call.version0)
        IN  /\ call.res # "Ok" =>
                   /\ after.registers = m.registers
                   /\ after.pc = m.pc
                   /\ EventsIn(after.events, "update_register") = {}
                   /\ EventsIn(after.events, "update_pc") = {}
            /\ call.res \in {"Ok", "MemOutOfBound"}
            /\ call.res # "Ok" <=> (rejected \/ ~InBound(address, bytes))
            /\ call.rd = 0 =>
                   /\ call.res = other.res
                   /\ ~rejected =>
                          EventsIn(after.events, "load") # {}
                   /\ \A i \in EventsIn(after.events, "load") :
                          after.events[i] = Event("load", bytes, <<address>>, "")

C15_FailedLoadWritesNothing ==
    [][\A call \in {last'}, after \in {Machine'} : C15_Step(Mac, call, after)]_vars

\* LD x0 of VERSION1 three bytes past the last doubleword of the memory,
\* with x1 written before: the load was attempted, the error is returned,
\* x1 is still there.
C15_Witness ==
    /\ last.op = "ld" /\ last.rd = 0 /\ ~last.version0
    /\ last.res = "MemOutOfBound"
    /\ EventsOf("load") # {}
    /\ EventsOf("update_register") = {}
    /\ registers[RA] # Zero

====
